---- MODULE Spec2Model ----
(***************************************************************************)
(* Smut Wrapped: the harvesting pipeline of src/scraper.js (listing       *)
(* pagination, merge, detail enrichment, cancellation, progress, rate     *)
(* limiting), the requests the main process makes on its own              *)
(* (src/main.js), the date filter of the listings and the rating and      *)
(* bookmark statistics of the analyzer.                                   *)
(*                                                                         *)
(* JavaScript runs the code between two awaits atomically, so one action  *)
(* is the code from one resumption (a fetch or a delay returning) to the  *)
(* next await.  UI events (cancelScraping) interleave at the awaits only. *)
(***************************************************************************)
EXTENDS Integers, Sequences, FiniteSets, TLC

\* ------------------------------------------------------------------ bounds
MaxPages == 2       \* highest page bound a pagination control advertises
MaxRows == 1        \* rows with a work id on one listing page
MaxId == 2          \* distinct work ids in the archive
MaxVisit == 2       \* highest "Visited N times" of a history row
MaxPageLimit == 2   \* highest value of the page-limit slider
MaxLen == 3         \* length of the lists handed to mergeItems on its own
MaxWorks == 6       \* records in a collection whose lengths are analyzed
MaxShips == 6       \* distinct relationship tags in the archive
MaxTagsPerWork == 2 \* tags of one kind on one record
MaxTags == 31       \* distinct tags in the archive, where tags are ranked
MaxRanked == 2      \* records in a collection whose tags are ranked
MaxStored == 2      \* records in the stored collection the filters are applied to

\* --------------------------------------------------------------- constants
RATE_LIMIT_MS == 5000
DefaultPageLimit == 10

Null == "null"          \* JavaScript null in a string-valued field
NullNum == -1           \* JavaScript null in a number-valued field

VARIABLES
  pc,               \* where scrapeAll is suspended
  options,          \* {source, timeRange, pageLimit} of the run
  cancelRequested,  \* scraper.js:15
  totalPages,       \* local of scrapeReadingHistory / scrapeBookmarks
  page,             \* loop variable of the listing loops
  hItems,           \* allItems of scrapeReadingHistory (rows as fetched)
  bItems,           \* allItems of scrapeBookmarks (rows as fetched)
  allItems,         \* allItems of scrapeAll / historyItems of enrichWithMetadata
  merged,           \* the collection as it entered enrichment (history variable)
  outcomes,         \* per detail fetch, whether it succeeded (history variable)
  completed,        \* enrichWithMetadata
  failed,           \* enrichWithMetadata
  progress,         \* percents handed to onProgress, in emission order
  fetchLog,         \* fetches of the run (window.electronAPI.fetchUrl), in order
  returned,         \* per fetch whose promise has settled, whether it succeeded
  advertised,       \* per source, the page bound its pagination control showed (0: not read)
  requests,         \* number of requests the application has sent to the archive
  sinceFetch,       \* ms of completed delay() since the last request was issued
  gap,              \* sinceFetch when the last request was issued (NullNum: it was the first)
  result,           \* what scrapeAll resolved with
  scrapedData,      \* state.scrapedData of app.js (null as the empty sequence)
  stats,            \* state.stats of app.js
  elements,         \* the filter controls of the results screen (sliders, checkboxes)
  filteredWorks,    \* filteredWorks of applyFiltersAndRegenerate, as last computed
  doc,              \* the listing page handed to scrapeHistoryPage / scrapeBookmarkPage
  timeZone,         \* the time zone of the machine the program runs on
  runs,             \* the calls of scrapeAll made so far, each with its position
  isProcessing,     \* state.isProcessing of app.js
  upc,              \* where the get-username handler is suspended
  spc               \* where the get-profile-stats handler is suspended

runVars == <<pc, options, cancelRequested, totalPages, page, hItems, bItems,
             allItems, merged, outcomes, completed, failed, progress, result,
             returned, advertised>>
netVars == <<fetchLog, requests, sinceFetch, gap>>
filterVars == <<elements, filteredWorks>>
parseVars == <<doc>>
clickVars == <<runs, isProcessing>>
appVars == <<scrapedData, stats, filterVars, parseVars, timeZone, clickVars>>
handlerVars == <<upc, spc>>
vars == <<runVars, netVars, appVars, handlerVars>>

\* ------------------------------------------------------- values and inputs
Sources == {"history", "bookmarks", "both"}
TimeRanges == {"all", "year", "pages"}

\* options as app.js hands them over (state.filters); the page limit only
\* varies where the code reads it
OptionSet ==
  { [source |-> s, timeRange |-> "pages", pageLimit |-> l] :
      s \in Sources, l \in 1..MaxPageLimit }
  \cup
  { [source |-> s, timeRange |-> t, pageLimit |-> DefaultPageLimit] :
      s \in Sources, t \in {"all", "year"} }

\* lastVisited strings of listing rows, and what new Date(str) makes of
\* them: a day number, or NaN for a string that is no date
NaN == -2
NowDay == 1096          \* new Date() of the run, "01 Jan 2023"
OneYearDays == 365      \* setFullYear(getFullYear() - 1)
DateStrings == {"01 Jan 2020", "01 Jun 2022", "a while ago"}

ParseDate(dateStr) ==
  CASE dateStr = "01 Jan 2020" -> 0
    [] dateStr = "31 Dec 2021" -> 730
    [] dateStr = "01 Jan 2022" -> 731
    [] dateStr = "02 Jan 2022" -> 732
    [] dateStr = "27 Mar 2022" -> 816
    [] dateStr = "28 Mar 2022" -> 817
    [] dateStr = "01 Jun 2022" -> 882
    [] OTHER -> NaN

\* new Date(str) of a date without a time is midnight of that day in the
\* time zone of the machine; toISOString() writes the instant in UTC. The
\* offset from UTC, in hours, that a zone has at its midnight of a day:
\* British Summer Time began on 27 Mar 2022 at 01:00
TimeZones == {"America/New_York", "Europe/London", "Asia/Tokyo"}
RunZone == "America/New_York"
SummerTime(day) == day >= 817 /\ day <= 1033
OffsetAtMidnight(zone, day) ==
  CASE zone = "America/New_York" -> IF SummerTime(day) THEN -4 ELSE -5
    [] zone = "Europe/London" -> IF SummerTime(day) THEN 1 ELSE 0
    [] zone = "Asia/Tokyo" -> 9

\* date.toISOString().split('T')[0] of the midnight of a day in a zone, as a
\* day number that orders as the key string does: midnight east of Greenwich
\* is an hour of the day before in UTC
toISODay(zone, day) == IF OffsetAtMidnight(zone, day) > 0 THEN day - 1 ELSE day

\* getFullYear() * 100 + getMonth() + 1 of a day: the month key, as a number
\* that orders as the key string does
MonthKey(day) ==
  CASE day = 0 -> 202001
    [] day = 730 -> 202112
    [] day \in {731, 732} -> 202201
    [] day \in {816, 817} -> 202203
    [] day = 882 -> 202206
    [] OTHER -> NaN

\* the dates the listing rows of a run carry
RowDates == {Null, "01 Jan 2020", "01 Jun 2022"}

HistoryRows ==
  { [workId |-> i, visitCount |-> v, lastVisited |-> d,
     wordCount |-> NullNum, rating |-> Null, kudos |-> NullNum] :
      i \in 1..MaxId, v \in 1..MaxVisit, d \in RowDates }

BookmarkRows ==
  { [workId |-> i, visitCount |-> 1, lastVisited |-> d,
     wordCount |-> NullNum, isBookmark |-> TRUE, rating |-> Null,
     kudos |-> NullNum] :
      i \in 1..MaxId, d \in RowDates }

\* the metadata fetchWorkMetadata parses out of the detail page of a work
Metadata(workId) ==
  [workId |-> workId, rating |-> "Explicit", wordCount |-> 1000 * workId,
   kudos |-> 50 * workId]

SeqsUpTo(S, n) == UNION { [1..k -> S] : k \in 0..n }

\* what window.electronAPI.fetchUrl resolves with (main.js fetch-url)
FetchErrors == {"HTTP 503: Service Unavailable", "Request was cancelled"}
FetchFailures == { [success |-> FALSE, error |-> e] : e \in FetchErrors }
FetchResults(docs) == { [success |-> TRUE, html |-> d] : d \in docs } \cup FetchFailures

\* ----------------------------------------------------------- pure helpers
\* JavaScript property reads on records that may lack the property
Has(w, f) == f \in DOMAIN w
IsTrue(w, f) == Has(w, f) /\ w[f] = TRUE
IsString(w, f, str) == Has(w, f) /\ w[f] = str
Min(a, b) == IF a < b THEN a ELSE b

\* a filter that lets no record without a date through
isWithinLastYear_DropsUndated(dateStr) ==
  IF dateStr = Null THEN FALSE
  ELSE IF ParseDate(dateStr) = NaN THEN FALSE
  ELSE ParseDate(dateStr) >= NowDay - OneYearDays

isWithinLastYear(dateStr) ==
  IF dateStr = Null THEN TRUE
  ELSE IF ParseDate(dateStr) = NaN THEN TRUE
  ELSE ParseDate(dateStr) >= NowDay - OneYearDays

\* allItems.filter(item => isWithinLastYear(item.lastVisited))
FilterWithinLastYear(items) ==
  LET F[i \in 0..Len(items)] ==
        IF i = 0 THEN <<>>
        ELSE IF isWithinLastYear(items[i].lastVisited)
             THEN Append(F[i - 1], items[i])
             ELSE F[i - 1]
  IN F[Len(items)]

\* what scrapeReadingHistory / scrapeBookmarks return
ApplyTimeRange(items, timeRange) ==
  IF timeRange = "year" THEN FilterWithinLastYear(items) ELSE items

\* a page count that ignores the page limit
ClampPages_Unlimited(bound, timeRange, pageLimit) == bound

ClampPages(bound, timeRange, pageLimit) ==
  IF timeRange = "pages" /\ pageLimit > 0
  THEN IF bound < pageLimit THEN bound ELSE pageLimit
  ELSE bound

\* Map.set that keeps no keys: every item is added at the end
MapSet_AlwaysAppend(seen, item) == Append(seen, item)

\* Map.set: a key that is already present keeps its place
MapSet(seen, item) ==
  IF \E i \in 1..Len(seen) : seen[i].workId = item.workId
  THEN LET i == CHOOSE j \in 1..Len(seen) : seen[j].workId = item.workId
       IN [seen EXCEPT ![i] = item]
  ELSE Append(seen, item)

SetBookmarkFlag(existing) == ("isBookmark" :> TRUE) @@ existing

\* the second forEach of mergeItems
MergeBookmark(seen, item) ==
  IF \E i \in 1..Len(seen) : seen[i].workId = item.workId
  THEN LET i == CHOOSE j \in 1..Len(seen) : seen[j].workId = item.workId
       IN [seen EXCEPT ![i] = SetBookmarkFlag(seen[i])]
  ELSE Append(seen, item)

mergeItems(historyItems, bookmarkItems) ==
  LET H[i \in 0..Len(historyItems)] ==
        IF i = 0 THEN <<>> ELSE MapSet(H[i - 1], historyItems[i])
      B[i \in 0..Len(bookmarkItems)] ==
        IF i = 0 THEN H[Len(historyItems)]
        ELSE MergeBookmark(B[i - 1], bookmarkItems[i])
  IN B[Len(bookmarkItems)]

\* Object.assign(item, metadata)
ApplyMetadata(item, metadata) == metadata @@ item

\* error messages as their parts; includes('cancelled') looks into each part
CancelError == <<"Scraping cancelled by user">>
FetchError(context, cause) == <<"Failed to fetch ", context, ": ", cause>>
PartIncludesCancelled(part) ==
  part \in {"Scraping cancelled by user", "Request was cancelled"}
IncludesCancelled(message) == \E i \in 1..Len(message) : PartIncludesCancelled(message[i])

\* a catch block that throws the error on, so that scrapeAll rejects
CatchResult_Rethrows(message) == [kind |-> "rejected", success |-> FALSE]

\* the catch block of scrapeAll
CatchResult(message) ==
  IF IncludesCancelled(message)
  THEN [kind |-> "cancelled", success |-> FALSE, cancelled |-> TRUE]
  ELSE [kind |-> "error", success |-> FALSE, error |-> message]

SuccessResult(items, failedCount) ==
  [kind |-> "success", success |-> TRUE, items |-> items, failed |-> failedCount]

NoResult == [kind |-> "none"]

\* progress percents as exact fractions <<numerator, denominator>>
Whole(n) == <<n, 1>>
HistoryPercent(p, total) == <<5 * total + 25 * p, total>>
BookmarkPercent(offset, p, total) == <<offset * total + 12 * p, total>>
MetadataPercent(done, total) == <<30 * total + 60 * done, total>>
PercentLeq(a, b) == a[1] * b[2] <= b[1] * a[2]
ProgressOffset(source) == IF source = "both" THEN 30 ELSE 0

\* ------------------------------------------------ analyzer: bookmark stats
\* Math.round(a / b * 100) for a, b >= 0, b > 0
RoundPercent(a, b) == (200 * a + b) \div (2 * b)

\* w.visitCount || 0
VisitCountOrZero(w) ==
  IF Has(w, "visitCount") /\ w.visitCount # NullNum THEN w.visitCount ELSE 0

IsBookmarkedWork(w) == IsString(w, "source", "bookmark") \/ IsTrue(w, "isBookmarked")

IsRevisitedNotBookmarked(w) ==
  VisitCountOrZero(w) >= 2 /\ ~IsTrue(w, "isBookmarked") /\ ~IsString(w, "source", "bookmark")

\* the first element of the filtered list after the stable descending sort;
\* null is the empty sequence, a record is a one-element sequence
SecretFavorite(works) ==
  LET cand == { i \in 1..Len(works) : IsRevisitedNotBookmarked(works[i]) }
  IN IF cand = {} THEN <<>>
     ELSE LET best == CHOOSE i \in cand :
                        \A j \in cand :
                          \/ VisitCountOrZero(works[j]) < VisitCountOrZero(works[i])
                          \/ (VisitCountOrZero(works[j]) = VisitCountOrZero(works[i]) /\ i <= j)
          IN <<works[best]>>

BookmarkStats(works) ==
  LET bookmarkedWorks == { i \in 1..Len(works) : IsBookmarkedWork(works[i]) }
      historyWorks == { i \in 1..Len(works) :
                          IsString(works[i], "source", "history") \/ VisitCountOrZero(works[i]) > 0 }
  IN [totalBookmarks |-> Cardinality(bookmarkedWorks),
      totalHistory |-> Cardinality(historyWorks),
      bookmarkRatio |-> IF Len(works) > 0
                        THEN RoundPercent(Cardinality(bookmarkedWorks), Len(works))
                        ELSE 0,
      secretFavorite |-> SecretFavorite(works)]

\* ---------------------------------------------- analyzer: rating breakdown
ratingOrder ==
  <<"Explicit", "Mature", "Teen And Up Audiences", "General Audiences", "Not Rated">>

\* w.rating || 'Unknown'
RatingOrUnknown(w) ==
  IF Has(w, "rating") /\ w.rating # Null /\ w.rating # "" THEN w.rating ELSE "Unknown"

\* ratingCounts.get(rating) || 0
RatingCount(works, rating) ==
  Cardinality({ i \in 1..Len(works) : RatingOrUnknown(works[i]) = rating })

RatingBreakdown(works) ==
  [ i \in 1..Len(ratingOrder) |->
      LET count == RatingCount(works, ratingOrder[i])
      IN [rating |-> ratingOrder[i],
          count |-> count,
          percent |-> IF Len(works) > 0
                      THEN RoundPercent(count, Len(works))
                      ELSE 0] ]

\* ------------------------------------------- analyzer: length distribution
\* w.wordCount || 0
WordCountOrZero(w) ==
  IF Has(w, "wordCount") /\ w.wordCount # NullNum /\ w.wordCount # NaN
  THEN w.wordCount ELSE 0

\* the six buckets of lengthBuckets; NullNum is "no test on this side"
lengthBuckets ==
  << [label |-> "Drabbles (<1K)", min |-> NullNum, max |-> 1000],
     [label |-> "Short (1K-5K)", min |-> 1000, max |-> 5000],
     [label |-> "Medium (5K-20K)", min |-> 5000, max |-> 20000],
     [label |-> "Long (20K-50K)", min |-> 20000, max |-> 50000],
     [label |-> "Epic (50K-100K)", min |-> 50000, max |-> 100000],
     [label |-> "Novel+ (100K+)", min |-> 100000, max |-> NullNum] >>

InBucket(w, i) ==
  /\ (lengthBuckets[i].min = NullNum \/ WordCountOrZero(w) >= lengthBuckets[i].min)
  /\ (lengthBuckets[i].max = NullNum \/ WordCountOrZero(w) < lengthBuckets[i].max)

BucketCount(works, i) == Cardinality({ k \in 1..Len(works) : InBucket(works[k], i) })

LengthDistribution(works) ==
  [ i \in 1..Len(lengthBuckets) |->
      LET count == BucketCount(works, i)
      IN [label |-> lengthBuckets[i].label,
          count |-> count,
          percent |-> RoundPercent(count, Len(works))] ]

\* ------------------------------------------------ analyzer: top-N rankings
\* w.<field> || [] for a tag list; a list that is null is a record without
\* the property
ListOrEmpty(w, field) == IF Has(w, field) THEN w[field] ELSE <<>>

\* works.flatMap(w => w.<field> || [])
FlatMap(works, field) ==
  LET F[i \in 0..Len(works)] ==
        IF i = 0 THEN <<>> ELSE F[i - 1] \o ListOrEmpty(works[i], field)
  IN F[Len(works)]

\* the Map after items.forEach(item => { if (item) counts.set(item,
\* (counts.get(item) || 0) + 1) }), as its entries <<key, count>>: a Map keeps
\* its keys in the order in which they were first set, and a key's count is
\* the number of its occurrences; if (item) skips the empty string
countOccurrences(items) ==
  LET counted == SelectSeq(items, LAMBDA item : item # "")
      firsts == SelectSeq([ i \in 1..Len(counted) |-> i ],
                          LAMBDA i : \A j \in 1..(i - 1) : counted[j] # counted[i])
  IN [ k \in 1..Len(firsts) |->
         <<counted[firsts[k]],
           Cardinality({ j \in 1..Len(counted) : counted[j] = counted[firsts[k]] })>> ]
       \o <<>>

\* Array.from(map.entries()).sort((a, b) => b[1] - a[1]): a stable sort, an
\* entry moves before the entries with a smaller count only
SortByCount(entries) == SortSeq(entries, LAMBDA a, b : a[2] > b[2])

\* a ranking that keeps the order in which the values were met
getTopN_Unsorted(map, limit) == SubSeq(map, 1, Min(limit, Len(map)))

getTopN(map, limit) == SubSeq(SortByCount(map), 1, Min(limit, Len(map)))

\* stats.topX[0] || ['Unknown', 0]
TopOrUnknown(top) == IF Len(top) > 0 THEN top[1] ELSE <<"Unknown", 0>>

tagsToExclude == {"HTML", "html", "http", "https", "www"}

\* allTags: the freeform tags without the excluded ones
WithoutExcluded(tags) == SelectSeq(tags, LAMBDA tag : tag \notin tagsToExclude)

\* ------------------------------------------------- analyzer: rarest pairs
\* the keys of shipCounts whose count is 1, in insertion order
RareShips(shipCounts) ==
  LET once == SelectSeq(shipCounts, LAMBDA entry : entry[2] = 1)
  IN [ k \in 1..Len(once) |-> once[k][1] ] \o <<>>

\* a list of every ship, however often it occurs
RarestPairs_AllShips(shipCounts) ==
  LET all == [ i \in 1..Len(shipCounts) |-> shipCounts[i][1] ]
  IN SubSeq(all, 1, Min(5, Len(all)))

RarestPairs(shipCounts) ==
  LET rareShips == RareShips(shipCounts)
  IN SubSeq(rareShips, 1, Min(5, Len(rareShips)))

\* rareShips[0], or the last of topShips, or null
RarestPair(shipCounts, topShips) ==
  LET rareShips == RareShips(shipCounts)
  IN IF Len(rareShips) > 0 THEN rareShips[1]
     ELSE IF Len(topShips) > 0 THEN topShips[Len(topShips)][1]
     ELSE Null

\* -------------------------------------------------- analyzer: hidden gem
\* w.kudos || 0
KudosOrZero(w) ==
  IF Has(w, "kudos") /\ w.kudos # NullNum /\ w.kudos # NaN THEN w.kudos ELSE 0

\* w.visitCount || 1
VisitCountOrOne(w) ==
  IF Has(w, "visitCount") /\ w.visitCount # NullNum /\ w.visitCount # NaN
     /\ w.visitCount # 0
  THEN w.visitCount ELSE 1

IsPotentialGem(w) == KudosOrZero(w) < 100 /\ VisitCountOrOne(w) >= 2

\* a pick that takes the last of the most visited candidates
HiddenGem_LastOnTies(works) ==
  LET cand == { i \in 1..Len(works) : IsPotentialGem(works[i]) }
  IN IF cand = {} THEN <<>>
     ELSE LET best == CHOOSE i \in cand :
                        \A j \in cand :
                          \/ VisitCountOrOne(works[j]) < VisitCountOrOne(works[i])
                          \/ (VisitCountOrOne(works[j]) = VisitCountOrOne(works[i]) /\ j <= i)
          IN <<works[best]>>

\* potentialGems[0] || null after the stable descending sort; null is the
\* empty sequence, a record is a one-element sequence
HiddenGem(works) ==
  LET cand == { i \in 1..Len(works) : IsPotentialGem(works[i]) }
  IN IF cand = {} THEN <<>>
     ELSE LET best == CHOOSE i \in cand :
                        \A j \in cand :
                          \/ VisitCountOrOne(works[j]) < VisitCountOrOne(works[i])
                          \/ (VisitCountOrOne(works[j]) = VisitCountOrOne(works[i]) /\ i <= j)
          IN <<works[best]>>

\* ------------------------------------------------- analyzer: basic stats
\* Math.round(a / b) for a >= 0, b > 0
RoundDiv(a, b) == (2 * a + b) \div (2 * b)

\* reduce((sum, w) => sum + w, 0) over a sequence of numbers
Sum(numbers) ==
  LET S[i \in 0..Len(numbers)] ==
        IF i = 0 THEN 0 ELSE S[i - 1] + numbers[i]
  IN S[Len(numbers)]

TotalWords(works) == Sum([ i \in 1..Len(works) |-> WordCountOrZero(works[i]) ])
TotalVisits(works) == Sum([ i \in 1..Len(works) |-> VisitCountOrOne(works[i]) ])

\* w.complete === true / w.complete === false; a null flag is a record
\* without the property
CompletionStats(works) ==
  LET completeWorks == Cardinality({ i \in 1..Len(works) : IsTrue(works[i], "complete") })
      wipWorks == Cardinality({ i \in 1..Len(works) :
                                  Has(works[i], "complete") /\ works[i].complete = FALSE })
  IN [complete |-> completeWorks,
      wip |-> wipWorks,
      unknown |-> Len(works) - completeWorks - wipWorks,
      completePercent |-> RoundPercent(completeWorks, Len(works)),
      wipPercent |-> RoundPercent(wipWorks, Len(works))]

\* [...works].sort((a, b) => key(b) - key(a))[0]: the first record with the
\* highest key, the keys given per position
FirstOfHighest(works, keys) ==
  LET best == CHOOSE i \in 1..Len(works) :
                \A j \in 1..Len(works) :
                  keys[j] < keys[i] \/ (keys[j] = keys[i] /\ i <= j)
  IN works[best]

LongestWork(works) ==
  FirstOfHighest(works, [ i \in 1..Len(works) |-> WordCountOrZero(works[i]) ])
MostReRead(works) ==
  FirstOfHighest(works, [ i \in 1..Len(works) |-> VisitCountOrOne(works[i]) ])
MostKudosedWork(works) ==
  FirstOfHighest(works, [ i \in 1..Len(works) |-> KudosOrZero(works[i]) ])

\* ------------------------------------------- analyzer: date-keyed aggregates
\* a loop body that does not test the date it has parsed
PassesNaNGuard_Missing(date) == TRUE

\* if (!isNaN(date))
PassesNaNGuard(date) == date # NaN

\* if (w.lastVisited) { date = new Date(w.lastVisited); if (!isNaN(date)) ...
HasDate(w) ==
  Has(w, "lastVisited") /\ w.lastVisited # Null /\ w.lastVisited # ""
    /\ PassesNaNGuard(ParseDate(w.lastVisited))

\* date.toISOString() throws a RangeError on an Invalid Date
toISOStringThrows(date) == date = NaN

DayOf(w) == ParseDate(w.lastVisited)

Dated(works) == { i \in 1..Len(works) : HasDate(works[i]) }

\* readingDates: the distinct days
ReadingDates(works) == { toISODay(timeZone, DayOf(works[i])) : i \in Dated(works) }

\* Array.from(set).sort() of day keys, which order as the days do
SortedNumbers(S) ==
  LET F[T \in SUBSET S] ==
        IF T = {} THEN <<>>
        ELSE LET least == CHOOSE x \in T : \A y \in T : x <= y
             IN <<least>> \o F[T \ {least}]
  IN F[S]

\* the loop over sortedDates; the pair is <<longestStreak, currentStreak>>
LongestStreak(works) ==
  LET readingDates == ReadingDates(works)
      sortedDates == SortedNumbers(readingDates)
      L[i \in 1..Len(sortedDates)] ==
        IF i = 1 THEN <<1, 1>>
        ELSE IF sortedDates[i] - sortedDates[i - 1] = 1
             THEN <<IF L[i - 1][2] + 1 > L[i - 1][1] THEN L[i - 1][2] + 1 ELSE L[i - 1][1],
                    L[i - 1][2] + 1>>
             ELSE <<L[i - 1][1], 1>>
  IN IF readingDates = {} THEN 0 ELSE L[Len(sortedDates)][1]

\* the first month, in the order in which the months were met, among those
\* with the most words; null is the empty sequence
BusiestMonth(works) ==
  LET dated == Dated(works)
      WordsIn(m) ==
        Sum([ i \in 1..Len(works) |->
                IF i \in dated /\ MonthKey(DayOf(works[i])) = m
                THEN WordCountOrZero(works[i]) ELSE 0 ])
      FirstOf(m) == CHOOSE i \in dated :
                      /\ MonthKey(DayOf(works[i])) = m
                      /\ \A j \in dated : MonthKey(DayOf(works[j])) = m => i <= j
      months == { MonthKey(DayOf(works[i])) : i \in dated }
  IN IF months = {} THEN <<>>
     ELSE LET best == CHOOSE m \in months :
                        \A n \in months :
                          \/ WordsIn(n) < WordsIn(m)
                          \/ (WordsIn(n) = WordsIn(m) /\ FirstOf(m) <= FirstOf(n))
          IN << [month |-> best, words |-> WordsIn(best)] >>

\* monthCounts sorted by month key
MonthlyActivity(works) ==
  LET dated == Dated(works)
      months == SortedNumbers({ MonthKey(DayOf(works[i])) : i \in dated })
  IN [ k \in 1..Len(months) |->
         [month |-> months[k],
          count |-> Cardinality({ i \in dated :
                                    MonthKey(DayOf(works[i])) = months[k] })] ]

\* ------------------------------------------------ analyzer: chapter counts
\* chapters.match(/^(\d+)/): the leading number, NullNum without a match
LeadingNumber(chapters) ==
  CASE chapters = "1/1" -> 1
    [] chapters = "3/?" -> 3
    [] chapters = "12/40" -> 12
    [] OTHER -> NullNum

HasChapters(w) == Has(w, "chapters") /\ w.chapters # Null /\ w.chapters # ""

AverageChapters(works) ==
  LET worksWithChapters == { i \in 1..Len(works) : HasChapters(works[i]) }
      totalChapters ==
        Sum([ i \in 1..Len(works) |->
                IF i \in worksWithChapters /\ LeadingNumber(works[i].chapters) # NullNum
                THEN LeadingNumber(works[i].chapters) ELSE 0 ])
  IN IF worksWithChapters # {}
     THEN RoundDiv(totalChapters, Cardinality(worksWithChapters))
     ELSE 0

\* an analysis without the early return for an empty collection
analyze_NoEarlyReturn(works) == [isEmpty |-> FALSE, totalWorks |-> Len(works)]

\* what a caller has in hand when analyze has thrown
Thrown == [threw |-> TRUE]

\* the statements of analyze that can throw, and when they do
AnalyzeThrows(works) ==
  \E i \in Dated(works) : toISOStringThrows(DayOf(works[i]))

analyze(works) ==
  IF Len(works) = 0
  THEN [isEmpty |-> TRUE, totalWorks |-> 0]
  ELSE IF AnalyzeThrows(works) THEN Thrown
  ELSE LET fandomCounts == countOccurrences(FlatMap(works, "fandoms"))
           shipCounts == countOccurrences(FlatMap(works, "relationships"))
           characterCounts == countOccurrences(FlatMap(works, "characters"))
           tagCounts == countOccurrences(WithoutExcluded(FlatMap(works, "freeformTags")))
           authorCounts == countOccurrences(FlatMap(works, "authors"))
           warningCounts == countOccurrences(FlatMap(works, "warnings"))
           totalWords == TotalWords(works)
           topFandoms == getTopN(fandomCounts, 10)
           topShips == getTopN(shipCounts, 10)
           topCharacters == getTopN(characterCounts, 10)
           topTags == getTopN(tagCounts, 30)
           topAuthors == getTopN(authorCounts, 10)
       IN [isEmpty |-> FALSE, totalWorks |-> Len(works),
           totalWords |-> totalWords,
           averageWords |-> RoundDiv(totalWords, Len(works)),
           totalVisits |-> TotalVisits(works),
           topFandoms |-> topFandoms,
           topFandom |-> TopOrUnknown(topFandoms),
           topShips |-> topShips,
           topShip |-> TopOrUnknown(topShips),
           topCharacters |-> topCharacters,
           topCharacter |-> TopOrUnknown(topCharacters),
           topTags |-> topTags,
           topTag |-> TopOrUnknown(topTags),
           topAuthors |-> topAuthors,
           topAuthor |-> TopOrUnknown(topAuthors),
           ratingBreakdown |-> RatingBreakdown(works),
           completionStats |-> CompletionStats(works),
           longestWork |-> LongestWork(works),
           mostReRead |-> MostReRead(works),
           mostKudosedWork |-> MostKudosedWork(works),
           hiddenGem |-> HiddenGem(works),
           rarestPairs |-> RarestPairs(shipCounts),
           rarestPair |-> RarestPair(shipCounts, topShips),
           lengthDistribution |-> LengthDistribution(works),
           monthlyActivity |-> MonthlyActivity(works),
           busiestMonth |-> BusiestMonth(works),
           warningBreakdown |-> getTopN(warningCounts, 10),
           totalReadingDays |-> Cardinality(ReadingDates(works)),
           longestStreak |-> LongestStreak(works),
           averageChapters |-> AverageChapters(works),
           bookmarkStats |-> BookmarkStats(works)]

\* a call that sorts the array it was handed by kudos, in place
WorksAfterAnalyze_SortsInPlace(works) ==
  LET F[T \in SUBSET (1..Len(works))] ==
        IF T = {} THEN <<>>
        ELSE LET best == CHOOSE i \in T :
                           \A j \in T :
                             \/ KudosOrZero(works[j]) < KudosOrZero(works[i])
                             \/ (KudosOrZero(works[j]) = KudosOrZero(works[i]) /\ i <= j)
             IN <<works[best]>> \o F[T \ {best}]
  IN F[1..Len(works)]

\* the array analyze was handed, after the call: every sort is on a copy
\* ([...works].sort, works.filter(...).sort) and no record is assigned to
WorksAfterAnalyze(works) == works

NoStats == [isEmpty |-> TRUE, totalWorks |-> -1]   \* state.stats = null

\* ------------------------------------------------------- the filter stage
\* the value attributes of the .rating-filter checkboxes: the page that
\* declares them is not among the sources; one checkbox for every rating
\* applyFilters can meet
RatingFilterValues ==
  { ratingOrder[i] : i \in 1..Len(ratingOrder) } \cup {"Unknown"}

\* the controls as resetFilters leaves them
ResetElements ==
  [wordCountMin |-> 0, wordCountMax |-> 200000, checked |-> RatingFilterValues]

\* updateSliderValues: a minimum above the maximum is pulled down to it
updateSliderValues(el) ==
  IF el.wordCountMin > el.wordCountMax
  THEN [el EXCEPT !.wordCountMin = el.wordCountMax]
  ELSE el

\* parseInt of a slider value is the number the slider stands at
getFilterSettings(el) ==
  [wordCountMin |-> el.wordCountMin, wordCountMax |-> el.wordCountMax,
   ratings |-> el.checked]

\* a callback whose upper limit is exclusive
PassesFilters_ExclusiveMax(work, filters) ==
  /\ ~(WordCountOrZero(work) < filters.wordCountMin
        \/ WordCountOrZero(work) >= filters.wordCountMax)
  /\ RatingOrUnknown(work) \in filters.ratings

\* the callback of works.filter in applyFilters
PassesFilters(work, filters) ==
  /\ ~(WordCountOrZero(work) < filters.wordCountMin
        \/ WordCountOrZero(work) > filters.wordCountMax)
  /\ RatingOrUnknown(work) \in filters.ratings

\* a filter that hands the kept records back last first
applyFilters_Reversed(works, filters) ==
  LET F[i \in 0..Len(works)] ==
        IF i = 0 THEN <<>>
        ELSE IF PassesFilters(works[i], filters)
             THEN <<works[i]>> \o F[i - 1]
             ELSE F[i - 1]
  IN F[Len(works)]

applyFilters(works, filters) ==
  LET F[i \in 0..Len(works)] ==
        IF i = 0 THEN <<>>
        ELSE IF PassesFilters(works[i], filters)
             THEN Append(F[i - 1], works[i])
             ELSE F[i - 1]
  IN F[Len(works)]

\* ------------------------------------------------------------ the harvester
Running == pc \notin {"idle", "done", "finished"}

\* a request goes out after `waited` more ms of delay
DelayPcs == {"historyDelay", "sourceDelay", "bookmarkDelay", "metadataDelay", "workDelay"}
AtLeastZero(n) == IF n < 0 THEN 0 ELSE n

Issue(kind, n, waited) ==
  /\ fetchLog' = Append(fetchLog, <<kind, n>>)
  /\ requests' = requests + 1
  /\ gap' = IF requests = 0 THEN NullNum ELSE AtLeastZero(sinceFetch + waited)
  /\ sinceFetch' = 0

\* a request of a main-process handler; a delay() of the run that is under
\* way began before it, so its completion warrants no time after this request
IssueByHandler ==
  /\ requests' = requests + 1
  /\ gap' = IF requests = 0 THEN NullNum ELSE AtLeastZero(sinceFetch)
  /\ sinceFetch' = IF pc \in DelayPcs THEN 0 - RATE_LIMIT_MS ELSE 0
  /\ UNCHANGED fetchLog

Wait(waited) ==
  /\ sinceFetch' = sinceFetch + waited
  /\ UNCHANGED <<fetchLog, requests, gap>>

\* an awaited fetchUrl promise that never counts as settled
Settle_StillPending(log, success) == log

\* `await window.electronAPI.fetchUrl(url)` resumes: one more fetch has settled
Settle(log, success) == Append(log, success)

\* getPageCount returns maxPage: what the pagination control of the page shows
NotAdvertised == [history |-> 0, bookmarks |-> 0]
Advertise(shown, source, r) ==
  IF r.success THEN [shown EXCEPT ![source] = r.html] ELSE shown

Emit(percents) == progress' = progress \o percents

Resolve(res) == pc' = "done" /\ result' = res

\* an empty harvest reported as a failed run
AfterListing_EmptyIsError(items) ==
  IF Len(items) = 0
  THEN /\ Resolve(CatchResult(<<"No reading history found">>))
       /\ UNCHANGED <<progress, merged>>
  ELSE /\ Emit(<<Whole(30)>>)
       /\ merged' = items
       /\ pc' = "metadataDelay"
       /\ UNCHANGED result

\* scrapeAll lines 700-720, once the listing phase has produced `items`
AfterListing(items) ==
  IF Len(items) = 0
  THEN /\ Resolve(SuccessResult(<<>>, 0))
       /\ UNCHANGED <<progress, merged>>
  ELSE /\ Emit(<<Whole(30)>>)
       /\ merged' = items
       /\ pc' = "metadataDelay"
       /\ UNCHANGED result

\* scrapeAll up to its first await (lines 671-681, then 476-487 or 539-543)
ScrapeAllBegin ==
  /\ cancelRequested' = FALSE
  /\ IF options.source \in {"both", "history"}
     THEN /\ Emit(<<Whole(0)>>)
          /\ Issue("historyCount", 0, 0)
          /\ pc' = "historyCount"
     ELSE /\ Issue("bookmarkCount", 0, 0)
          /\ pc' = "bookmarkCount"
          /\ UNCHANGED progress
  /\ UNCHANGED <<options, totalPages, page, hItems, bItems, allItems, merged,
                 outcomes, completed, failed, result, returned, advertised,
                 appVars>>

\* startScraping with state.username known
StartScraping ==
  /\ pc = "idle"
  /\ upc \in {"idle", "done"}
  /\ ScrapeAllBegin
  /\ UNCHANGED handlerVars

\* the head of the history loop for page p, after `waited` ms of delay
HistoryLoop(p, total, before, waited) ==
  /\ page' = p
  /\ IF cancelRequested
     THEN /\ Emit(before)
          /\ Resolve(CatchResult(CancelError))
          /\ Wait(waited)
     ELSE /\ Emit(Append(before, HistoryPercent(p, total)))
          /\ Issue("historyPage", p, waited)
          /\ pc' = "historyPage"
          /\ UNCHANGED result

HistoryCountReturn ==
  /\ pc = "historyCount"
  /\ \E r \in FetchResults(1..MaxPages) :
    /\ advertised' = Advertise(advertised, "history", r)
    /\ returned' = Settle(returned, r.success)
    /\ IF ~r.success
       THEN /\ Resolve(CatchResult(FetchError("history", r.error)))
            /\ UNCHANGED <<totalPages, page, progress, netVars>>
       ELSE LET total == ClampPages(r.html, options.timeRange, options.pageLimit)
            IN /\ totalPages' = total
               /\ HistoryLoop(1, total, <<Whole(5)>>, 0)
  /\ UNCHANGED <<options, cancelRequested, hItems, bItems, allItems, merged,
                 outcomes, completed, failed, appVars, handlerVars>>

HistoryPageReturn ==
  /\ pc = "historyPage"
  /\ \E r \in FetchResults(SeqsUpTo(HistoryRows, MaxRows)) :
    /\ UNCHANGED advertised
    /\ returned' = Settle(returned, r.success)
    /\ IF ~r.success
       THEN /\ Resolve(CatchResult(FetchError("history page", r.error)))
            /\ UNCHANGED <<hItems, allItems, merged, progress>>
       ELSE /\ hItems' = hItems \o r.html
            /\ IF page < totalPages
               THEN /\ pc' = "historyDelay"
                    /\ UNCHANGED <<allItems, merged, progress, result>>
               ELSE /\ allItems' = ApplyTimeRange(hItems', options.timeRange)
                    /\ IF options.source = "both"
                       THEN /\ pc' = "sourceDelay"
                            /\ UNCHANGED <<merged, progress, result>>
                       ELSE AfterListing(allItems')
  /\ UNCHANGED <<options, cancelRequested, totalPages, page, bItems, outcomes,
                 completed, failed, netVars, appVars, handlerVars>>

HistoryDelayDone ==
  /\ pc = "historyDelay"
  /\ HistoryLoop(page + 1, totalPages, <<>>, RATE_LIMIT_MS)
  /\ UNCHANGED <<returned, advertised, options, cancelRequested, totalPages, hItems, bItems, allItems,
                 merged, outcomes, completed, failed, appVars, handlerVars>>

\* scrapeAll line 688, then scrapeBookmarks up to its first await
SourceDelayDone ==
  /\ pc = "sourceDelay"
  /\ Issue("bookmarkCount", 0, RATE_LIMIT_MS)
  /\ pc' = "bookmarkCount"
  /\ UNCHANGED <<returned, advertised, options, cancelRequested, totalPages, page, hItems, bItems,
                 allItems, merged, outcomes, completed, failed, progress, result,
                 appVars, handlerVars>>

BookmarkLoop(p, total, before, waited) ==
  /\ page' = p
  /\ IF cancelRequested
     THEN /\ Emit(before)
          /\ Resolve(CatchResult(CancelError))
          /\ Wait(waited)
     ELSE /\ Emit(Append(before, BookmarkPercent(ProgressOffset(options.source), p, total)))
          /\ Issue("bookmarkPage", p, waited)
          /\ pc' = "bookmarkPage"
          /\ UNCHANGED result

BookmarkCountReturn ==
  /\ pc = "bookmarkCount"
  /\ \E r \in FetchResults(1..MaxPages) :
    /\ advertised' = Advertise(advertised, "bookmarks", r)
    /\ returned' = Settle(returned, r.success)
    /\ IF ~r.success
       THEN /\ Resolve(CatchResult(FetchError("bookmarks", r.error)))
            /\ UNCHANGED <<totalPages, page, progress, netVars>>
       ELSE LET total == ClampPages(r.html, options.timeRange, options.pageLimit)
            IN /\ totalPages' = total
               /\ BookmarkLoop(1, total, <<Whole(ProgressOffset(options.source) + 2)>>, 0)
  /\ UNCHANGED <<options, cancelRequested, hItems, bItems, allItems, merged,
                 outcomes, completed, failed, appVars, handlerVars>>

BookmarkPageReturn ==
  /\ pc = "bookmarkPage"
  /\ \E r \in FetchResults(SeqsUpTo(BookmarkRows, MaxRows)) :
    /\ UNCHANGED advertised
    /\ returned' = Settle(returned, r.success)
    /\ IF ~r.success
       THEN /\ Resolve(CatchResult(FetchError("bookmark page", r.error)))
            /\ UNCHANGED <<bItems, allItems, merged, progress>>
       ELSE /\ bItems' = bItems \o r.html
            /\ IF page < totalPages
               THEN /\ pc' = "bookmarkDelay"
                    /\ UNCHANGED <<allItems, merged, progress, result>>
               ELSE /\ allItems' =
                         IF options.source = "both"
                         THEN mergeItems(allItems, ApplyTimeRange(bItems', options.timeRange))
                         ELSE ApplyTimeRange(bItems', options.timeRange)
                    /\ AfterListing(allItems')
  /\ UNCHANGED <<options, cancelRequested, totalPages, page, hItems, outcomes,
                 completed, failed, netVars, appVars, handlerVars>>

BookmarkDelayDone ==
  /\ pc = "bookmarkDelay"
  /\ BookmarkLoop(page + 1, totalPages, <<>>, RATE_LIMIT_MS)
  /\ UNCHANGED <<returned, advertised, options, cancelRequested, totalPages, hItems, bItems, allItems,
                 merged, outcomes, completed, failed, appVars, handlerVars>>

\* a loop that walks the collection from its end
EnrichLoop_Backwards(done) ==
  IF cancelRequested
  THEN /\ Resolve(CatchResult(CancelError))
       /\ Wait(RATE_LIMIT_MS)
       /\ UNCHANGED progress
  ELSE /\ Emit(<<MetadataPercent(done, Len(allItems))>>)
       /\ Issue("work", allItems[Len(allItems) - done].workId, RATE_LIMIT_MS)
       /\ pc' = "work"
       /\ UNCHANGED result

\* the head of the loop of enrichWithMetadata, `done` items behind it
EnrichLoop(done) ==
  IF cancelRequested
  THEN /\ Resolve(CatchResult(CancelError))
       /\ Wait(RATE_LIMIT_MS)
       /\ UNCHANGED progress
  ELSE /\ Emit(<<MetadataPercent(done, Len(allItems))>>)
       /\ Issue("work", allItems[done + 1].workId, RATE_LIMIT_MS)
       /\ pc' = "work"
       /\ UNCHANGED result

\* scrapeAll line 720 returns, enrichWithMetadata starts
MetadataDelayDone ==
  /\ pc = "metadataDelay"
  /\ completed' = 0
  /\ failed' = 0
  /\ EnrichLoop(0)
  /\ UNCHANGED <<returned, advertised, options, cancelRequested, totalPages, page, hItems, bItems,
                 allItems, merged, outcomes, appVars, handlerVars>>

\* what the try/catch around fetchWorkMetadata leaves of the item and of failed
EnrichItem(item, r) == IF r.success THEN ApplyMetadata(item, r.html) ELSE item
\* a catch block that does not count
FailedAfter_NotCounted(count, r) == count

FailedAfter(count, r) == IF r.success THEN count ELSE count + 1

\* a loop that fetches a work again when its first fetch has failed
WorkReturn_RetriesOnce ==
  /\ pc = "work"
  /\ \E r \in FetchResults({Metadata(allItems[completed + 1].workId)}) :
       LET again == ~r.success /\ Len(outcomes) = completed
       IN /\ allItems' = [allItems EXCEPT ![completed + 1] = EnrichItem(@, r)]
          /\ failed' = IF again THEN failed ELSE FailedAfter(failed, r)
          /\ outcomes' = Append(outcomes, r.success)
          /\ UNCHANGED advertised
          /\ returned' = Settle(returned, r.success)
          /\ completed' = IF again THEN completed ELSE completed + 1
  /\ IF completed' < Len(allItems)
     THEN /\ pc' = "workDelay"
          /\ UNCHANGED <<progress, result>>
     ELSE /\ Emit(<<Whole(95)>>)
          /\ Resolve(SuccessResult(allItems', failed'))
  /\ UNCHANGED <<options, cancelRequested, totalPages, page, hItems, bItems,
                 merged, netVars, appVars, handlerVars>>

WorkReturn ==
  /\ pc = "work"
  /\ \E r \in FetchResults({Metadata(allItems[completed + 1].workId)}) :
       /\ allItems' = [allItems EXCEPT ![completed + 1] = EnrichItem(@, r)]
       /\ failed' = FailedAfter(failed, r)
       /\ outcomes' = Append(outcomes, r.success)
       /\ UNCHANGED advertised
       /\ returned' = Settle(returned, r.success)
  /\ completed' = completed + 1
  /\ IF completed' < Len(allItems)
     THEN /\ pc' = "workDelay"
          /\ UNCHANGED <<progress, result>>
     ELSE /\ Emit(<<Whole(95)>>)
          /\ Resolve(SuccessResult(allItems', failed'))
  /\ UNCHANGED <<options, cancelRequested, totalPages, page, hItems, bItems,
                 merged, netVars, appVars, handlerVars>>

WorkDelayDone ==
  /\ pc = "workDelay"
  /\ EnrichLoop(completed)
  /\ UNCHANGED <<returned, advertised, options, cancelRequested, totalPages, page, hItems, bItems,
                 allItems, merged, outcomes, completed, failed, appVars, handlerVars>>

\* cancelScraping -> requestCancel, at any await of the run
RequestCancel ==
  /\ Running
  /\ ~cancelRequested
  /\ cancelRequested' = TRUE
  /\ UNCHANGED <<pc, returned, advertised, options, totalPages, page, hItems, bItems, allItems, merged,
                 outcomes, completed, failed, progress, result, netVars, appVars,
                 handlerVars>>

\* a caller that stores whatever the run had collected, however it resolved
FinishScraping_KeepsPartial ==
  /\ pc = "done"
  /\ pc' = "finished"
  /\ scrapedData' = allItems
  /\ stats' = analyze(allItems)
  /\ UNCHANGED <<returned, advertised, options, cancelRequested, totalPages, page, hItems, bItems,
                 allItems, merged, outcomes, completed, failed, progress, result,
                 netVars, filterVars, parseVars, timeZone, clickVars, handlerVars>>

\* startScraping after scrapeAll has resolved
FinishScraping ==
  /\ pc = "done"
  /\ pc' = "finished"
  /\ IF result.kind = "success" /\ Len(result.items) > 0
     THEN /\ scrapedData' = result.items
          /\ stats' = analyze(result.items)
     ELSE UNCHANGED <<scrapedData, stats>>
  /\ UNCHANGED <<returned, advertised, options, cancelRequested, totalPages, page, hItems, bItems,
                 allItems, merged, outcomes, completed, failed, progress, result,
                 netVars, filterVars, parseVars, timeZone, clickVars, handlerVars>>

Init ==
  /\ pc = "idle"
  /\ options \in OptionSet
  /\ cancelRequested = FALSE
  /\ totalPages = 0
  /\ page = 0
  /\ hItems = <<>>
  /\ bItems = <<>>
  /\ allItems = <<>>
  /\ merged = <<>>
  /\ outcomes = <<>>
  /\ completed = 0
  /\ failed = 0
  /\ progress = <<>>
  /\ fetchLog = <<>>
  /\ returned = <<>>
  /\ advertised = NotAdvertised
  /\ requests = 0
  /\ sinceFetch = 0
  /\ gap = NullNum
  /\ result = NoResult
  /\ scrapedData = <<>>
  /\ stats = NoStats
  /\ upc = "idle"
  /\ spc = "idle"
  /\ doc = <<>>
  /\ timeZone = RunZone
  /\ runs = <<>>
  /\ isProcessing = FALSE
  /\ elements = ResetElements
  /\ filteredWorks = <<>>

Next ==
  \/ StartScraping
  \/ HistoryCountReturn
  \/ HistoryPageReturn
  \/ HistoryDelayDone
  \/ SourceDelayDone
  \/ BookmarkCountReturn
  \/ BookmarkPageReturn
  \/ BookmarkDelayDone
  \/ MetadataDelayDone
  \/ WorkReturn
  \/ WorkDelayDone
  \/ RequestCancel
  \/ FinishScraping

Spec == Init /\ [][Next]_vars

\* every fetch and every delay the run awaits eventually returns; at most one
\* of these resumptions is enabled at a time
Resume ==
  \/ HistoryCountReturn
  \/ HistoryPageReturn
  \/ HistoryDelayDone
  \/ SourceDelayDone
  \/ BookmarkCountReturn
  \/ BookmarkPageReturn
  \/ BookmarkDelayDone
  \/ MetadataDelayDone
  \/ WorkReturn
  \/ WorkDelayDone

SpecLive == Init /\ [][Next]_vars /\ WF_vars(Resume)

\* --------------------------------------- the main-process request handlers
\* checkLoginStatus calls getUsername: get-username fetches the home page
GetUsernameCall ==
  /\ upc = "start"
  /\ IssueByHandler
  /\ upc' = "home"
  /\ UNCHANGED <<runVars, appVars, spc>>

\* startScraping without state.username awaits getUsername first
StartScrapingWithoutUsername ==
  /\ pc = "idle"
  /\ upc = "failed"
  /\ pc' = "username"
  /\ IssueByHandler
  /\ upc' = "home"
  /\ UNCHANGED <<returned, advertised, options, cancelRequested, totalPages, page, hItems, bItems,
                 allItems, merged, outcomes, completed, failed, progress, result,
                 appVars, spc>>

\* startScraping throws when getUsername did not succeed
UsernameFailed ==
  /\ upc' = "failed"
  /\ pc' = IF pc = "username" THEN "finished" ELSE pc
  /\ UNCHANGED <<returned, advertised, options, cancelRequested, totalPages, page, hItems, bItems,
                 allItems, merged, outcomes, completed, failed, progress, result,
                 appVars, spc, netVars>>

\* get-username: the home page answers; a username found is validated with a
\* second request (validateUsername)
GetUsernameHome ==
  /\ upc = "home"
  /\ \E found \in BOOLEAN :
       IF found
       THEN /\ IssueByHandler
            /\ upc' = "validate"
            /\ UNCHANGED <<runVars, appVars, spc>>
       ELSE UsernameFailed

\* get-username returns; checkLoginStatus goes on to fetchProfileStats
\* (get-profile-stats, first request), startScraping goes on to scrapeAll
GetUsernameValidated ==
  /\ upc = "validate"
  /\ \E isValid \in BOOLEAN :
       IF ~isValid
       THEN UsernameFailed
       ELSE /\ upc' = "done"
            /\ IF pc = "username"
               THEN ScrapeAllBegin /\ UNCHANGED spc
               ELSE /\ IssueByHandler
                    /\ spc' = "readings"
                    /\ UNCHANGED <<runVars, appVars>>

\* get-profile-stats: the readings page answers, the bookmarks page is asked
ProfileReadingsReturn ==
  /\ spc = "readings"
  /\ \E threw \in BOOLEAN :
       IF threw
       THEN spc' = "done" /\ UNCHANGED netVars
       ELSE spc' = "bookmarks" /\ IssueByHandler
  /\ UNCHANGED <<runVars, appVars, upc>>

ProfileBookmarksReturn ==
  /\ spc = "bookmarks"
  /\ spc' = "done"
  /\ UNCHANGED <<runVars, appVars, upc, netVars>>

\* the handlers read no option: the runs they interleave with are the ones
\* limited by a number of pages
AppOptionSet == { o \in OptionSet : o.timeRange = "pages" }

InitApp ==
  /\ pc = "idle"
  /\ options \in AppOptionSet
  /\ cancelRequested = FALSE
  /\ totalPages = 0
  /\ page = 0
  /\ hItems = <<>>
  /\ bItems = <<>>
  /\ allItems = <<>>
  /\ merged = <<>>
  /\ outcomes = <<>>
  /\ completed = 0
  /\ failed = 0
  /\ progress = <<>>
  /\ fetchLog = <<>>
  /\ returned = <<>>
  /\ advertised = NotAdvertised
  /\ requests = 0
  /\ sinceFetch = 0
  /\ gap = NullNum
  /\ result = NoResult
  /\ scrapedData = <<>>
  /\ stats = NoStats
  /\ upc = "start"
  /\ spc = "idle"
  /\ doc = <<>>
  /\ timeZone = RunZone
  /\ runs = <<>>
  /\ isProcessing = FALSE
  /\ elements = ResetElements
  /\ filteredWorks = <<>>

NextApp ==
  \/ Next
  \/ GetUsernameCall
  \/ StartScrapingWithoutUsername
  \/ GetUsernameHome
  \/ GetUsernameValidated
  \/ ProfileReadingsReturn
  \/ ProfileBookmarksReturn

SpecApp == InitApp /\ [][NextApp]_vars

\* ------------------------------------------------- mergeItems on its own
\* the lists mergeItems is handed: rows of either kind, ids repeating freely
MergeHistoryRows == { r \in HistoryRows : r.lastVisited = Null }
MergeBookmarkRows == { r \in BookmarkRows : r.lastVisited = Null }

InitMerge ==
  /\ pc = "merge"
  /\ hItems \in SeqsUpTo(MergeHistoryRows, MaxLen)
  /\ bItems \in SeqsUpTo(MergeBookmarkRows, MaxLen)
  /\ options = [source |-> "both", timeRange |-> "all", pageLimit |-> DefaultPageLimit]
  /\ cancelRequested = FALSE
  /\ totalPages = 0
  /\ page = 0
  /\ allItems = <<>>
  /\ merged = <<>>
  /\ outcomes = <<>>
  /\ completed = 0
  /\ failed = 0
  /\ progress = <<>>
  /\ fetchLog = <<>>
  /\ returned = <<>>
  /\ advertised = NotAdvertised
  /\ requests = 0
  /\ sinceFetch = 0
  /\ gap = NullNum
  /\ result = NoResult
  /\ scrapedData = <<>>
  /\ stats = NoStats
  /\ upc = "idle"
  /\ spc = "idle"
  /\ doc = <<>>
  /\ timeZone = RunZone
  /\ runs = <<>>
  /\ isProcessing = FALSE
  /\ elements = ResetElements
  /\ filteredWorks = <<>>

MergeApply ==
  /\ pc = "merge"
  /\ allItems' = mergeItems(hItems, bItems)
  /\ pc' = "merged"
  /\ UNCHANGED <<returned, advertised, options, cancelRequested, totalPages, page, hItems, bItems,
                 merged, outcomes, completed, failed, progress, result, netVars,
                 appVars, handlerVars>>

NextMerge == MergeApply

SpecMerge == InitMerge /\ [][NextMerge]_vars

\* --------------------------------------------- the date filter on its own
\* lastVisited of the rows the filter is handed: absent, no date, long ago,
\* just older than a year, exactly a year ago, recent
FilterDates == DateStrings \cup {Null, "31 Dec 2021", "01 Jan 2022"}
FilterRows ==
  { [workId |-> i, visitCount |-> 1, lastVisited |-> d,
     wordCount |-> NullNum, rating |-> Null, kudos |-> NullNum] :
      i \in 1..MaxId, d \in FilterDates }

InitFilter ==
  /\ pc = "filter"
  /\ hItems \in SeqsUpTo(FilterRows, MaxLen)
  /\ options \in { [source |-> "history", timeRange |-> t, pageLimit |-> DefaultPageLimit] :
                      t \in TimeRanges }
  /\ bItems = <<>>
  /\ cancelRequested = FALSE
  /\ totalPages = 0
  /\ page = 0
  /\ allItems = <<>>
  /\ merged = <<>>
  /\ outcomes = <<>>
  /\ completed = 0
  /\ failed = 0
  /\ progress = <<>>
  /\ fetchLog = <<>>
  /\ returned = <<>>
  /\ advertised = NotAdvertised
  /\ requests = 0
  /\ sinceFetch = 0
  /\ gap = NullNum
  /\ result = NoResult
  /\ scrapedData = <<>>
  /\ stats = NoStats
  /\ upc = "idle"
  /\ spc = "idle"
  /\ doc = <<>>
  /\ timeZone = RunZone
  /\ runs = <<>>
  /\ isProcessing = FALSE
  /\ elements = ResetElements
  /\ filteredWorks = <<>>

\* the return statement of scrapeReadingHistory / scrapeBookmarks
FilterApply ==
  /\ pc = "filter"
  /\ allItems' = ApplyTimeRange(hItems, options.timeRange)
  /\ pc' = "filtered"
  /\ UNCHANGED <<returned, advertised, options, cancelRequested, totalPages, page,
                 hItems, bItems, merged, outcomes, completed, failed, progress,
                 result, netVars, appVars, handlerVars>>

NextFilter == FilterApply

SpecFilter == InitFilter /\ [][NextFilter]_vars

\* --------------------------------------------------- analyze on its own
\* ratings of the records analyze is handed: the five the archive knows,
\* 'Unknown' (detail page without a rating tag), null (listing row whose
\* detail fetch failed), and records without the property
AnalyzeRatings ==
  { ratingOrder[i] : i \in 1..Len(ratingOrder) } \cup {"Unknown", Null}
AnalyzeRows ==
  { [workId |-> 1, visitCount |-> 1, rating |-> r] : r \in AnalyzeRatings }
  \cup { [workId |-> 1, visitCount |-> 1] }

InitAnalyze ==
  /\ pc = "analyze"
  /\ scrapedData \in SeqsUpTo(AnalyzeRows, MaxLen)
  /\ stats = NoStats
  /\ options = [source |-> "both", timeRange |-> "all", pageLimit |-> DefaultPageLimit]
  /\ hItems = <<>>
  /\ bItems = <<>>
  /\ cancelRequested = FALSE
  /\ totalPages = 0
  /\ page = 0
  /\ allItems = <<>>
  /\ merged = <<>>
  /\ outcomes = <<>>
  /\ completed = 0
  /\ failed = 0
  /\ progress = <<>>
  /\ fetchLog = <<>>
  /\ returned = <<>>
  /\ advertised = NotAdvertised
  /\ requests = 0
  /\ sinceFetch = 0
  /\ gap = NullNum
  /\ result = NoResult
  /\ upc = "idle"
  /\ spc = "idle"
  /\ doc = <<>>
  /\ timeZone = RunZone
  /\ runs = <<>>
  /\ isProcessing = FALSE
  /\ elements = ResetElements
  /\ filteredWorks = <<>>

\* window.StatsAnalyzer.analyze(works)
AnalyzeApply ==
  /\ pc = "analyze"
  /\ stats' = analyze(scrapedData)
  /\ scrapedData' = WorksAfterAnalyze(scrapedData)
  /\ pc' = "analyzed"
  /\ UNCHANGED <<returned, advertised, options, cancelRequested, totalPages, page,
                 hItems, bItems, allItems, merged, outcomes, completed, failed,
                 progress, result, netVars, filterVars, parseVars, timeZone, clickVars, handlerVars>>

NextAnalyze == AnalyzeApply

SpecAnalyze == InitAnalyze /\ [][NextAnalyze]_vars

\* ------------------------------------- the length distribution on its own
\* no harvest has run and none is running
NoRun ==
  /\ options = [source |-> "both", timeRange |-> "all", pageLimit |-> DefaultPageLimit]
  /\ hItems = <<>>
  /\ bItems = <<>>
  /\ cancelRequested = FALSE
  /\ totalPages = 0
  /\ page = 0
  /\ allItems = <<>>
  /\ merged = <<>>
  /\ outcomes = <<>>
  /\ completed = 0
  /\ failed = 0
  /\ progress = <<>>
  /\ fetchLog = <<>>
  /\ returned = <<>>
  /\ advertised = NotAdvertised
  /\ requests = 0
  /\ sinceFetch = 0
  /\ gap = NullNum
  /\ result = NoResult
  /\ upc = "idle"
  /\ spc = "idle"
  /\ doc = <<>>
  /\ timeZone = RunZone
  /\ runs = <<>>
  /\ isProcessing = FALSE

\* word counts of the records: null, and the lowest count of every bucket
\* but the first, whose highest it is
LengthWordCounts == {NullNum, 999, 1000, 5000, 20000, 50000, 100000}
LengthRows == { [workId |-> 1, wordCount |-> c] : c \in LengthWordCounts }

InitLengths ==
  /\ pc = "analyze"
  /\ scrapedData \in SeqsUpTo(LengthRows, MaxWorks)
  /\ stats = NoStats
  /\ elements = ResetElements
  /\ filteredWorks = <<>>
  /\ NoRun

NextLengths == AnalyzeApply

SpecLengths == InitLengths /\ [][NextLengths]_vars

\* ------------------------------------------ the ship statistics on their own
ShipNames == <<"A/B", "C/D", "E/F", "G/H", "I/J", "K/L", "M/N", "O/P">>
Ships == { ShipNames[i] : i \in 1..MaxShips }

\* records with their relationship tags, and one that has none
ShipRows ==
  { [workId |-> 1, relationships |-> r] : r \in SeqsUpTo(Ships, MaxTagsPerWork) }
  \cup { [workId |-> 1] }

InitShips ==
  /\ pc = "analyze"
  /\ scrapedData \in SeqsUpTo(ShipRows, MaxLen)
  /\ stats = NoStats
  /\ elements = ResetElements
  /\ filteredWorks = <<>>
  /\ NoRun

NextShips == AnalyzeApply

SpecShips == InitShips /\ [][NextShips]_vars

\* ------------------------------------------------- analyze called twice
\* kudos and visit counts of the records: absent, null, and either side of
\* the limits of the hidden gem
GemKudos == {NullNum, 99, 100}
GemVisits == {1, 2, 3}
GemRows ==
  { [workId |-> i, kudos |-> k, visitCount |-> v] :
      i \in 1..MaxId, k \in GemKudos, v \in GemVisits }
  \cup { [workId |-> i, visitCount |-> v] : i \in 1..MaxId, v \in GemVisits }
  \cup { [workId |-> i, kudos |-> k] : i \in 1..MaxId, k \in GemKudos }

InitTwice ==
  /\ pc = "analyze"
  /\ scrapedData \in SeqsUpTo(GemRows, MaxLen)
  /\ stats = NoStats
  /\ elements = ResetElements
  /\ filteredWorks = <<>>
  /\ NoRun

\* a second call with the array the first call was handed
AnalyzeAgain ==
  /\ pc = "analyzed"
  /\ stats' = analyze(scrapedData)
  /\ scrapedData' = WorksAfterAnalyze(scrapedData)
  /\ pc' = "reanalyzed"
  /\ UNCHANGED <<returned, advertised, options, cancelRequested, totalPages, page,
                 hItems, bItems, allItems, merged, outcomes, completed, failed,
                 progress, result, netVars, filterVars, parseVars, timeZone, clickVars, handlerVars>>

NextTwice == AnalyzeApply \/ AnalyzeAgain

SpecTwice == InitTwice /\ [][NextTwice]_vars

\* ---------------------------------------------- the rankings on their own
TagNames ==
  << "t01", "t02", "t03", "t04", "t05", "t06", "t07", "t08", "t09", "t10",
     "t11", "t12", "t13", "t14", "t15", "t16", "t17", "t18", "t19", "t20",
     "t21", "t22", "t23", "t24", "t25", "t26", "t27", "t28", "t29", "t30",
     "t31", "t32", "t33" >>

\* the tags from the a-th to the b-th
Run(a, b) == [ k \in 1..(b - a + 1) |-> TagNames[a + k - 1] ]

Reverse(list) == [ k \in 1..Len(list) |-> list[Len(list) + 1 - k] ]
DropFirst(list) == IF Len(list) = 0 THEN list ELSE SubSeq(list, 2, Len(list))
DropLast(list) == IF Len(list) = 0 THEN list ELSE SubSeq(list, 1, Len(list) - 1)

\* tag lists of a record: the first tags of the archive, the last ones, and
\* every short list over two tags, the empty string and an excluded tag
TagLists ==
  { Run(1, b) : b \in 0..MaxTags }
  \cup { Run(a, MaxTags) : a \in 1..MaxTags }
  \cup SeqsUpTo({TagNames[1], TagNames[2], "", "HTML"}, MaxTagsPerWork)

\* a record with a tag list of every kind, and one with none
RankedRows ==
  { [workId |-> 1, fandoms |-> r, relationships |-> Reverse(r),
     characters |-> DropFirst(r), freeformTags |-> r, authors |-> DropLast(r),
     warnings |-> Reverse(DropFirst(r))] : r \in TagLists }
  \cup { [workId |-> 1] }

InitRanked ==
  /\ pc = "analyze"
  /\ scrapedData \in SeqsUpTo(RankedRows, MaxRanked)
  /\ stats = NoStats
  /\ elements = ResetElements
  /\ filteredWorks = <<>>
  /\ NoRun

NextRanked == AnalyzeApply

SpecRanked == InitRanked /\ [][NextRanked]_vars

\* ------------------------------- analyze on records with fields missing
\* the numbers, the texts and tag lists, and the date of a record, each
\* present, absent or null (a null flag or list is an absent one); the date
\* may also be a string that is no date
NumberFields ==
  { [wordCount |-> 5000, kudos |-> 50, visitCount |-> 2],
    [wordCount |-> NullNum, kudos |-> NullNum, visitCount |-> NullNum],
    <<>> }
TextFields ==
  { [rating |-> "Explicit", chapters |-> "3/?", complete |-> TRUE,
     fandoms |-> <<"t01">>, relationships |-> <<"A/B">>, characters |-> <<"t02">>,
     freeformTags |-> <<"t03">>, authors |-> <<"t04">>, warnings |-> <<"t05">>],
    [rating |-> Null, chapters |-> Null],
    <<>> }
DateFields ==
  { [lastVisited |-> d] : d \in {"01 Jan 2022", "02 Jan 2022", "a while ago", Null} }
  \cup { <<>> }
OptionalRows ==
  { [workId |-> 1] @@ n @@ t @@ d : n \in NumberFields, t \in TextFields, d \in DateFields }

InitOptional ==
  /\ pc = "analyze"
  /\ scrapedData \in SeqsUpTo(OptionalRows, MaxLen)
  /\ stats = NoStats
  /\ elements = ResetElements
  /\ filteredWorks = <<>>
  /\ NoRun

NextOptional == AnalyzeApply

SpecOptional == InitOptional /\ [][NextOptional]_vars

\* ------------------------------------------------- reading days and streak
\* records of which only the date matters: days next to each other in winter,
\* the two days around the start of British Summer Time, a summer day
StreakDates ==
  {Null, "a while ago", "01 Jan 2022", "02 Jan 2022", "27 Mar 2022", "28 Mar 2022",
   "01 Jun 2022"}
StreakRows == { [workId |-> 1, lastVisited |-> d] : d \in StreakDates }

InitStreak ==
  /\ pc = "analyze"
  /\ scrapedData \in SeqsUpTo(StreakRows, MaxLen)
  /\ stats = NoStats
  /\ elements = ResetElements
  /\ filteredWorks = <<>>
  /\ options = [source |-> "both", timeRange |-> "all", pageLimit |-> DefaultPageLimit]
  /\ hItems = <<>> /\ bItems = <<>> /\ allItems = <<>> /\ merged = <<>>
  /\ cancelRequested = FALSE
  /\ totalPages = 0 /\ page = 0
  /\ outcomes = <<>> /\ completed = 0 /\ failed = 0 /\ progress = <<>>
  /\ fetchLog = <<>> /\ returned = <<>> /\ advertised = NotAdvertised
  /\ requests = 0 /\ sinceFetch = 0 /\ gap = NullNum
  /\ result = NoResult
  /\ upc = "idle" /\ spc = "idle"
  /\ doc = <<>>
  /\ timeZone \in TimeZones
  /\ runs = <<>>
  /\ isProcessing = FALSE

NextStreak == AnalyzeApply

SpecStreak == InitStreak /\ [][NextStreak]_vars

\* a filter whose callback writes the defaulted word count back to the record
WorksAfterFilters_WritesDefault(works, filters) ==
  [ i \in 1..Len(works) |->
      [works[i] EXCEPT !.wordCount = WordCountOrZero(works[i])] ] \o <<>>

\* the array applyFilters was handed, after the call: works.filter builds a
\* new array and its callback only reads work.wordCount and work.rating
WorksAfterFilters(works, filters) == works

\* ------------------------------------------ the filters of the results screen
\* the stored records: word counts absent, inside the sliders' range and
\* beyond it; ratings absent or set
StoredWordCounts == {NullNum, 1000, 200001}
StoredRatings == {Null, "Explicit"}
StoredRows ==
  { [workId |-> i, wordCount |-> c, rating |-> r] :
      i \in 1..MaxId, c \in StoredWordCounts, r \in StoredRatings }

\* where the sliders can be put, and the checkboxes the user toggles
SliderStops == {0, 1000, 200000}
ToggledRatings == {"Explicit", "Unknown"}

\* the results screen after a harvest: showResults has run, the filter
\* controls are as the page declares them
InitRegen ==
  /\ pc = "results"
  /\ scrapedData \in SeqsUpTo(StoredRows, MaxStored) \ {<<>>}
  /\ stats = analyze(scrapedData)
  /\ elements = ResetElements
  /\ filteredWorks = <<>>
  /\ NoRun

harvestVars == <<returned, advertised, options, cancelRequested, totalPages, page,
                 hItems, bItems, allItems, merged, outcomes, completed, failed,
                 progress, result, netVars, parseVars, timeZone, clickVars, handlerVars>>

\* the user moves the lower slider: the input event runs updateSliderValues
SlideWordCountMin ==
  /\ pc \in {"results", "regenerated", "noResults"}
  /\ \E v \in SliderStops :
        elements' = updateSliderValues([elements EXCEPT !.wordCountMin = v])
  /\ pc' = "results"
  /\ UNCHANGED <<scrapedData, stats, filteredWorks, harvestVars>>

SlideWordCountMax ==
  /\ pc \in {"results", "regenerated", "noResults"}
  /\ \E v \in SliderStops :
        elements' = updateSliderValues([elements EXCEPT !.wordCountMax = v])
  /\ pc' = "results"
  /\ UNCHANGED <<scrapedData, stats, filteredWorks, harvestVars>>

\* the user clicks a rating checkbox
ToggleRating ==
  /\ pc \in {"results", "regenerated", "noResults"}
  /\ \E r \in ToggledRatings :
        elements' = [elements EXCEPT !.checked =
                       IF r \in @ THEN @ \ {r} ELSE @ \cup {r}]
  /\ pc' = "results"
  /\ UNCHANGED <<scrapedData, stats, filteredWorks, harvestVars>>

\* a handler that analyzes the view and renders it whether or not it is empty
Regenerate_AnalyzesEmptyView(el) ==
  /\ Len(scrapedData) > 0
  /\ UNCHANGED scrapedData
  /\ filteredWorks' = applyFilters(scrapedData, getFilterSettings(el))
  /\ stats' = analyze(filteredWorks')
  /\ pc' = "regenerated"
  /\ UNCHANGED harvestVars

\* applyFiltersAndRegenerate with the controls at el: "noResults" is the
\* 'No Results' error shown, "regenerated" the slides rendered anew
Regenerate(el) ==
  /\ Len(scrapedData) > 0
  /\ scrapedData' = WorksAfterFilters(scrapedData, getFilterSettings(el))
  /\ LET kept == applyFilters(scrapedData, getFilterSettings(el))
     IN IF Len(kept) = 0
        THEN pc' = "noResults" /\ filteredWorks' = kept /\ UNCHANGED stats
        ELSE /\ pc' = "regenerated"
             /\ stats' = analyze(kept)
             /\ filteredWorks' = WorksAfterAnalyze(kept)
  /\ UNCHANGED harvestVars

\* click on Apply
ApplyFiltersAndRegenerate ==
  /\ pc \in {"results", "regenerated", "noResults"}
  /\ UNCHANGED elements
  /\ Regenerate(elements)

\* click on Reset
ResetFilters ==
  /\ pc \in {"results", "regenerated", "noResults"}
  /\ elements' = updateSliderValues(ResetElements)
  /\ Regenerate(elements')

NextRegen ==
  \/ SlideWordCountMin
  \/ SlideWordCountMax
  \/ ToggleRating
  \/ ApplyFiltersAndRegenerate
  \/ ResetFilters

SpecRegen == InitRegen /\ [][NextRegen]_vars

\* ----------------------------------------------- parsing a listing page
\* what item.querySelector('h4.heading a') finds in a row: nothing (the empty
\* sequence) or a link, whose href attribute may be missing (Null)
Hrefs == {Null, "/users/ann/pseuds/ann", "/works/1", "/works/2"}
TitleLinks == {<<>>} \cup { <<[href |-> h]>> : h \in Hrefs }
ListingItems == { [titleLink |-> t] : t \in TitleLinks }

\* workUrl.match(/\/works\/(\d+)/): the digits, NullNum without a match
WorkIdMatch(workUrl) ==
  CASE workUrl = "/works/1" -> 1
    [] workUrl = "/works/2" -> 2
    [] OTHER -> NullNum

\* what a call of a row parser comes to: null, a record, or a TypeError
ReturnsNull == [kind |-> "null"]
Returns(item) == [kind |-> "item", item |-> item]
Throws(message) == [kind |-> "throws", message |-> message]

\* workUrl.match(...) on the null that getAttribute returns for a missing
\* attribute
MatchOfNull == <<"Cannot read properties of null (reading 'match')">>

\* parseHistoryItem on a row with no .visited element, no dd.words
parseHistoryItem(item) ==
  IF item.titleLink = <<>> THEN ReturnsNull
  ELSE LET workUrl == item.titleLink[1].href
       IN IF workUrl = Null THEN Throws(MatchOfNull)
          ELSE IF WorkIdMatch(workUrl) = NullNum THEN ReturnsNull
          ELSE Returns([workId |-> WorkIdMatch(workUrl), visitCount |-> 1,
                        lastVisited |-> Null, wordCount |-> NullNum,
                        rating |-> Null, kudos |-> NullNum])

\* parseBookmarkItem on a row with no datetime, no dd.words
parseBookmarkItem(item) ==
  IF item.titleLink = <<>> THEN ReturnsNull
  ELSE LET workUrl == item.titleLink[1].href
       IN IF workUrl = Null THEN Throws(MatchOfNull)
          ELSE IF WorkIdMatch(workUrl) = NullNum THEN ReturnsNull
          ELSE Returns([workId |-> WorkIdMatch(workUrl), visitCount |-> 1,
                        lastVisited |-> Null, wordCount |-> NullNum,
                        isBookmark |-> TRUE, rating |-> Null, kudos |-> NullNum])

\* items.forEach(item => { ... if (parsed) parsed.push(...) }) of
\* scrapeHistoryPage / scrapeBookmarkPage: the rows parsed, or the first throw
ParseListing(source, items) ==
  LET outs == [ i \in 1..Len(items) |->
                  IF source = "history" THEN parseHistoryItem(items[i])
                  ELSE parseBookmarkItem(items[i]) ] \o <<>>
      thrown == SelectSeq(outs, LAMBDA o : o.kind = "throws")
      pushed == SelectSeq(outs, LAMBDA o : o.kind = "item")
  IN IF Len(thrown) > 0 THEN thrown[1]
     ELSE [kind |-> "parsed", parsed |-> [ k \in 1..Len(pushed) |-> pushed[k].item ] \o <<>>]

\* the only page of the one source of a run has been fetched
InitParse ==
  /\ pc = "parse"
  /\ doc \in { [source |-> s, items |-> i] :
                 s \in {"history", "bookmarks"}, i \in SeqsUpTo(ListingItems, MaxLen) }
  /\ options = [source |-> doc.source, timeRange |-> "pages", pageLimit |-> 1]
  /\ hItems = <<>> /\ bItems = <<>> /\ allItems = <<>> /\ merged = <<>>
  /\ cancelRequested = FALSE
  /\ totalPages = 1 /\ page = 1
  /\ outcomes = <<>> /\ completed = 0 /\ failed = 0 /\ progress = <<>>
  /\ fetchLog = <<>> /\ returned = <<>> /\ advertised = NotAdvertised
  /\ requests = 1 /\ sinceFetch = 0 /\ gap = NullNum
  /\ result = NoResult
  /\ upc = "idle" /\ spc = "idle"
  /\ scrapedData = <<>>
  /\ stats = NoStats
  /\ elements = ResetElements
  /\ filteredWorks = <<>>
  /\ timeZone = RunZone
  /\ runs = <<>>
  /\ isProcessing = FALSE

\* scrapeHistoryPage / scrapeBookmarkPage from parseHTML on, inside
\* scrapeAll: a throw ends in the catch block of scrapeAll
ParsePage ==
  /\ pc = "parse"
  /\ LET out == ParseListing(doc.source, doc.items)
     IN IF out.kind = "throws"
        THEN Resolve(CatchResult(out.message)) /\ UNCHANGED <<hItems, bItems>>
        ELSE /\ pc' = "parsed"
             /\ IF doc.source = "history"
                THEN hItems' = hItems \o out.parsed /\ UNCHANGED bItems
                ELSE bItems' = bItems \o out.parsed /\ UNCHANGED hItems
             /\ UNCHANGED result
  /\ UNCHANGED <<returned, advertised, options, cancelRequested, totalPages, page,
                 allItems, merged, outcomes, completed, failed, progress,
                 netVars, appVars, handlerVars>>

NextParse == ParsePage

SpecParse == InitParse /\ [][NextParse]_vars

\* ------------------------------------------- clicks on Start and on Cancel
\* Each click on Start that passes the isProcessing guard calls scrapeAll
\* once more. A call is followed here through the history listing of an
\* account whose pages hold no rows (source 'history'): the page count, then
\* one fetch per page with a delay between two pages. A record of runs has
\* the position of the call and its loop variables, and two history fields:
\* cancelled (the user clicked Cancel while the progress screen was showing
\* this call) and fetchedSince (the fetches the call issued after that).
MaxRuns == 2
SettledAt == {"cancelled", "empty", "error"}
ActiveRuns == { r \in 1..Len(runs) : runs[r].at \notin SettledAt }

\* the await in startScraping returns: every branch a call without items can
\* take ends with showScreen('login') and state.isProcessing = false
SettleRun(r, outcome) ==
  /\ runs' = [runs EXCEPT ![r].at = outcome]
  /\ isProcessing' = FALSE

\* the head of `for (page = 1; page <= totalPages; page++)` for page p
ListingLoop(r, p, total) ==
  IF cancelRequested
  THEN SettleRun(r, "cancelled")
  ELSE /\ runs' = [runs EXCEPT ![r].at = "page", ![r].page = p, ![r].totalPages = total,
                               ![r].fetchedSince = IF runs[r].cancelled THEN @ + 1 ELSE @]
       /\ UNCHANGED isProcessing

runFrame == <<pc, options, totalPages, page, hItems, bItems, allItems, merged, outcomes,
              completed, failed, progress, returned, advertised, result, netVars,
              scrapedData, stats, filterVars, parseVars, timeZone, handlerVars>>

\* a click on btnStartWrapped: startScraping, and in it scrapeAll up to the
\* first await (resetCancel, then the fetch of getHistoryPageCount)
StartClick ==
  /\ ~isProcessing
  /\ Len(runs) < MaxRuns
  /\ isProcessing' = TRUE
  /\ cancelRequested' = FALSE
  /\ runs' = Append(runs, [at |-> "count", page |-> 0, totalPages |-> 0,
                           cancelled |-> FALSE, fetchedSince |-> 0])
  /\ UNCHANGED runFrame

\* a click on btnCancelScrape, which the progress screen shows: cancelScraping
CancelClick ==
  /\ isProcessing
  /\ cancelRequested' = TRUE
  /\ isProcessing' = FALSE
  /\ runs' = [runs EXCEPT ![Len(runs)].cancelled = (Len(runs) \in ActiveRuns)]
  /\ UNCHANGED runFrame

\* getHistoryPageCount returns to call r, or throws
RunCountReturn(r) ==
  /\ runs[r].at = "count"
  /\ \E ok \in BOOLEAN, total \in 1..MaxPages :
       IF ok THEN ListingLoop(r, 1, total) ELSE SettleRun(r, "error")
  /\ UNCHANGED <<cancelRequested, runFrame>>

\* scrapeHistoryPage returns no rows to call r, or throws; after the last
\* page scrapeAll returns {success: true, items: []}
RunPageReturn(r) ==
  /\ runs[r].at = "page"
  /\ \E ok \in BOOLEAN :
       IF ~ok THEN SettleRun(r, "error")
       ELSE IF runs[r].page < runs[r].totalPages
            THEN runs' = [runs EXCEPT ![r].at = "delay"] /\ UNCHANGED isProcessing
            ELSE SettleRun(r, "empty")
  /\ UNCHANGED <<cancelRequested, runFrame>>

\* delay(RATE_LIMIT_MS) between two pages is over for call r
RunDelayDone(r) ==
  /\ runs[r].at = "delay"
  /\ ListingLoop(r, runs[r].page + 1, runs[r].totalPages)
  /\ UNCHANGED <<cancelRequested, runFrame>>

InitRuns ==
  /\ pc = "idle"
  /\ NoRun
  /\ scrapedData = <<>>
  /\ stats = NoStats
  /\ elements = ResetElements
  /\ filteredWorks = <<>>

NextRuns ==
  \/ StartClick
  \/ CancelClick
  \/ \E r \in 1..Len(runs) : RunCountReturn(r)
  \/ \E r \in 1..Len(runs) : RunPageReturn(r)
  \/ \E r \in 1..Len(runs) : RunDelayDone(r)

SpecRuns == InitRuns /\ [][NextRuns]_vars

\* ------------------------------------------------- enrichment of a record
\* the tag lists a listing row and a detail page both carry
TagKinds == {"warnings", "fandoms", "relationships", "characters", "freeformTags"}
TagTexts == [TagKinds -> {<<>>, <<"t01">>}]

\* what parseHistoryItem / parseBookmarkItem return for a row: with or
\* without dd.words, with or without tags of each kind
ListedRecords ==
  { [workId |-> 1, title |-> "t02", authors |-> <<"t03">>, visitCount |-> v,
     lastVisited |-> "01 Jan 2022", wordCount |-> c, rating |-> Null, kudos |-> NullNum]
    @@ t @@ b :
      v \in {1, 2}, c \in {NullNum, 5000}, t \in TagTexts,
      b \in {<<>>, [isBookmark |-> TRUE]} }

\* the detail page of a work, by what the selectors of fetchWorkMetadata find
\* in it: the rating tag, the tags of each kind, dl.stats and in it dd.words
\* and dd.kudos
StatsBlocks ==
  {<<>>} \cup { <<[words |-> c, kudos |-> k]>> : c \in {NullNum, 1000}, k \in {NullNum, 50} }
DetailPages ==
  { [ratingTag |-> g, tags |-> t, statsBlock |-> s] :
      g \in {Null, "Explicit"}, t \in TagTexts, s \in StatsBlocks }

\* fetchWorkMetadata from parseHTML on
fetchWorkMetadata(workId, html) ==
  [workId |-> workId,
   rating |-> IF html.ratingTag # Null THEN html.ratingTag ELSE "Unknown",
   warnings |-> html.tags["warnings"],
   fandoms |-> html.tags["fandoms"],
   relationships |-> html.tags["relationships"],
   characters |-> html.tags["characters"],
   freeformTags |-> html.tags["freeformTags"],
   wordCount |-> IF html.statsBlock # <<>> THEN html.statsBlock[1].words ELSE NullNum,
   kudos |-> IF html.statsBlock # <<>> THEN html.statsBlock[1].kudos ELSE NullNum]

\* the collection of one record as the listing gave it, enrichWithMetadata
\* awaiting the detail page of the record
InitEnrich ==
  /\ pc = "work"
  /\ hItems \in { <<w>> : w \in ListedRecords }
  /\ allItems = hItems
  /\ doc \in DetailPages
  /\ options = [source |-> "history", timeRange |-> "pages", pageLimit |-> 1]
  /\ bItems = <<>> /\ merged = <<>>
  /\ cancelRequested = FALSE
  /\ totalPages = 1 /\ page = 1
  /\ outcomes = <<>> /\ completed = 0 /\ failed = 0 /\ progress = <<>>
  /\ fetchLog = <<>> /\ returned = <<>> /\ advertised = NotAdvertised
  /\ requests = 0 /\ sinceFetch = 0 /\ gap = NullNum
  /\ result = NoResult
  /\ upc = "idle" /\ spc = "idle"
  /\ scrapedData = <<>>
  /\ stats = NoStats
  /\ elements = ResetElements
  /\ filteredWorks = <<>>
  /\ timeZone = RunZone
  /\ runs = <<>>
  /\ isProcessing = FALSE

\* the body of the loop of enrichWithMetadata for the record, from the return
\* of the fetch on
EnrichReturn ==
  /\ pc = "work"
  /\ \E r \in FetchResults({doc}) :
       /\ allItems' = [allItems EXCEPT ![completed + 1] =
                         IF r.success
                         THEN ApplyMetadata(@, fetchWorkMetadata(@.workId, r.html))
                         ELSE @]
       /\ failed' = FailedAfter(failed, r)
       /\ outcomes' = Append(outcomes, r.success)
  /\ completed' = completed + 1
  /\ pc' = "enriched"
  /\ UNCHANGED <<returned, advertised, options, cancelRequested, totalPages, page,
                 hItems, bItems, merged, progress, result, netVars, appVars, handlerVars>>

NextEnrich == EnrichReturn

SpecEnrich == InitEnrich /\ [][NextEnrich]_vars

\* ------------------------------------------------------------- properties
Resolved == pc \in {"done", "finished"}
InFlight == Len(fetchLog) - Len(returned)
ListingKinds == {"historyCount", "historyPage", "bookmarkCount", "bookmarkPage"}
ListingFailed ==
  \E i \in 1..Len(returned) : ~returned[i] /\ fetchLog[i][1] \in ListingKinds
LastListingKind == IF options.source = "history" THEN "historyPage" ELSE "bookmarkPage"
\* the last listing page of the last selected source has returned successfully
ListingComplete ==
  /\ ~ListingFailed
  /\ \E k \in 1..Len(returned) :
       /\ fetchLog[k] = <<LastListingKind, totalPages>>
       /\ \A i \in (k + 1)..Len(fetchLog) : fetchLog[i][1] = "work"
WorkFetches == { i \in 1..Len(fetchLog) : fetchLog[i][1] = "work" }
FailedFetches == { i \in 1..Len(outcomes) : ~outcomes[i] }
WorkIdsOf(items) == { items[i].workId : i \in 1..Len(items) }
UniqueWorkIds(items) ==
  \A i, j \in 1..Len(items) : i # j => items[i].workId # items[j].workId

\* C1: in a scrapeAll run a full RATE_LIMIT_MS of delay completes between
\* every two consecutive outbound fetches (page bound, listing, detail).
C1_RateFloor == Len(fetchLog) >= 2 => gap >= RATE_LIMIT_MS

\* C2: a cancel requested after the run started and before it resolved makes
\* the run resolve as cancelled, never as success or as anything else.
C2_CancelYieldsCancelled == (Resolved /\ cancelRequested) => result.kind = "cancelled"

\* C3: once cancel is requested the run starts no new outbound fetch.
C3_NoFetchAfterCancel == [][cancelRequested => fetchLog' = fetchLog]_vars

\* C4: with any subset of the detail fetches failing, a run that is not
\* cancelled resolves as success, its failed count is the number of failed
\* detail fetches, a failed record is exactly its listing record, every other
\* record carries the detail fields, and every record's detail fetch is issued.
C4_PartialFailure ==
  /\ (Resolved /\ Len(outcomes) > 0 /\ ~cancelRequested) => result.kind = "success"
  /\ (Resolved /\ result.kind = "success") =>
       /\ Len(result.items) = Len(merged)
       /\ Len(outcomes) = Len(merged)
       /\ Cardinality(WorkFetches) = Len(merged)
       /\ result.failed = Cardinality(FailedFetches)
       /\ \A i \in 1..Len(merged) :
            IF outcomes[i]
            THEN LET md == Metadata(merged[i].workId)
                 IN /\ \A f \in DOMAIN md : result.items[i][f] = md[f]
                    /\ \A f \in DOMAIN merged[i] \ DOMAIN md :
                         result.items[i][f] = merged[i][f]
            ELSE result.items[i] = merged[i]

\* a success in which a failed detail fetch was followed by a successful one
C4_Witness ==
  /\ Resolved
  /\ result.kind = "success"
  /\ \E i, j \in 1..Len(outcomes) : i < j /\ ~outcomes[i] /\ outcomes[j]

\* C5: the items of a successful result hold no two records with one workId,
\* for every source option, whatever rows the listing pages return.
C5_UniqueInResult == (Resolved /\ result.kind = "success") => UniqueWorkIds(result.items)

\* C6: mergeItems returns no two records with one workId, for all inputs,
\* and the workIds of its result are the union of the workIds of its inputs.
C6_MergeUnique ==
  pc = "merged" =>
    /\ UniqueWorkIds(allItems)
    /\ WorkIdsOf(allItems) = WorkIdsOf(hItems) \cup WorkIdsOf(bItems)

\* merged lists with an id repeated inside each list and an id in both
C6_Witness ==
  /\ pc = "merged"
  /\ ~UniqueWorkIds(hItems)
  /\ ~UniqueWorkIds(bItems)
  /\ WorkIdsOf(hItems) \cap WorkIdsOf(bItems) # {}
  /\ WorkIdsOf(bItems) \ WorkIdsOf(hItems) # {}

\* C7: with source both and any timeRange, a workId in the fetched history
\* pages and in the fetched bookmark pages yields exactly one record, flagged
\* as bookmark and carrying a history row's visitCount and lastVisited.
C7_FlagUnion ==
  (Resolved /\ result.kind = "success" /\ options.source = "both") =>
    \A id \in WorkIdsOf(hItems) \cap WorkIdsOf(bItems) :
      LET recs == { i \in 1..Len(result.items) : result.items[i].workId = id }
      IN /\ Cardinality(recs) = 1
         /\ \A i \in recs :
              /\ IsTrue(result.items[i], "isBookmark")
              /\ \E k \in 1..Len(hItems) :
                   /\ hItems[k].workId = id
                   /\ result.items[i].visitCount = hItems[k].visitCount
                   /\ result.items[i].lastVisited = hItems[k].lastVisited

\* C8: the analyzer counts exactly the records with the harvester's bookmark
\* flag as bookmarked, and secretFavorite is the most visited record with
\* visitCount >= 2 among the records without the flag.
C8_FlagHonoured ==
  (pc = "finished" /\ Has(stats, "bookmarkStats")) =>
    LET flagged == { i \in 1..Len(scrapedData) : IsTrue(scrapedData[i], "isBookmark") }
        cand == { i \in 1..Len(scrapedData) :
                    i \notin flagged /\ scrapedData[i].visitCount >= 2 }
        fav == stats.bookmarkStats.secretFavorite
    IN /\ stats.bookmarkStats.totalBookmarks = Cardinality(flagged)
       /\ IF cand = {}
          THEN fav = <<>>
          ELSE /\ Len(fav) = 1
               /\ \E i \in cand :
                    /\ fav[1] = scrapedData[i]
                    /\ \A j \in cand : scrapedData[j].visitCount <= scrapedData[i].visitCount

\* C9: the percents of the progress events of one run never decrease.
C9_ProgressMonotonic ==
  \A i \in 1..(Len(progress) - 1) : PercentLeq(progress[i], progress[i + 1])

\* C10: no two requests of the application to archiveofourown.org are less
\* than 5 seconds apart, on any request path (fetch-url, get-username,
\* username validation, get-profile-stats).
C10_AllRequestsSpaced == requests >= 2 => gap >= RATE_LIMIT_MS

\* C11: during one scrapeAll run at most one outbound fetch is in flight: a
\* fetch is issued only after the previous fetch of the run has returned.
C11_OneInFlight ==
  /\ InFlight \in {0, 1}
  /\ (InFlight = 1) <=>
       pc \in {"historyCount", "historyPage", "bookmarkCount", "bookmarkPage", "work"}

\* the second detail fetch of a run with both sources is in flight
C11_Witness ==
  /\ pc = "work"
  /\ options.source = "both"
  /\ completed = 1
  /\ InFlight = 1

\* C12: when a page-bound fetch or a listing-page fetch fails, the run
\* resolves as an error (not as success, and not as cancelled unless a cancel
\* was requested), issues no detail fetch and returns no items.
C12_ListingFailureAborts ==
  ListingFailed =>
    /\ Resolved
    /\ result.kind # "success"
    /\ ~cancelRequested => result.kind = "error"
    /\ WorkFetches = {}
    /\ ~Has(result, "items")

\* C13: a run that resolves as cancelled exposes no harvested data: the
\* cancelled result carries no items, and no step of the run, nor the caller's
\* handling of the cancelled result, changes state.scrapedData or state.stats.
C13_CancelledExposesNothing ==
  [][ /\ Running => UNCHANGED appVars
      /\ result'.kind = "cancelled" => (~Has(result', "items") /\ UNCHANGED appVars)
    ]_vars

\* the caller has handled a cancelled result of a run that had harvested rows
C13_Witness ==
  /\ pc = "finished"
  /\ result.kind = "cancelled"
  /\ cancelRequested
  /\ Len(hItems) > 0
  /\ Len(fetchLog) >= 3

IsSuccessShape(res) ==
  /\ IsTrue(res, "success") /\ Has(res, "items") /\ Has(res, "failed")
  /\ ~Has(res, "cancelled") /\ ~Has(res, "error")
IsCancelledShape(res) ==
  /\ Has(res, "success") /\ ~res.success /\ IsTrue(res, "cancelled")
  /\ ~Has(res, "items") /\ ~Has(res, "error")
IsErrorShape(res) ==
  /\ Has(res, "success") /\ ~res.success /\ Has(res, "error")
  /\ ~Has(res, "items") /\ ~Has(res, "cancelled")

\* C14: when every fetch and every delay eventually returns, every scrapeAll
\* call eventually resolves, and what it resolves with is exactly one of
\* {success: true, items, failed}, {success: false, cancelled: true} and
\* {success: false, error}; it never rejects.
C14_AlwaysResolves ==
  /\ [](Resolved => (IsSuccessShape(result) \/ IsCancelledShape(result) \/ IsErrorShape(result)))
  /\ (pc # "idle") ~> Resolved

\* a run of both sources has resolved after two detail fetches
C14_Witness ==
  /\ pc = "done"
  /\ options.source = "both"
  /\ Len(outcomes) = 2
  /\ IsSuccessShape(result)

\* C15: when the listing of the selected sources completes with zero records
\* (no rows, or with timeRange year none that passes the date filter), the run
\* resolves as {success: true, items: [], failed: 0}, not as an error, and
\* issues no detail fetch.
C15_EmptyIsSuccess ==
  ( /\ ListingComplete
    /\ Len(ApplyTimeRange(hItems, options.timeRange)) = 0
    /\ Len(ApplyTimeRange(bItems, options.timeRange)) = 0 ) =>
    /\ Resolved
    /\ result = SuccessResult(<<>>, 0)
    /\ WorkFetches = {}

\* both sources listed over several pages, rows fetched, none of them kept
C15_Witness ==
  /\ ListingComplete
  /\ options.source = "both"
  /\ Len(hItems) > 0
  /\ Len(ApplyTimeRange(hItems, options.timeRange)) = 0
  /\ Len(ApplyTimeRange(bItems, options.timeRange)) = 0
  /\ Len(fetchLog) >= 5
  /\ result = SuccessResult(<<>>, 0)

PhaseOf(kind) ==
  CASE kind \in {"historyCount", "historyPage"} -> 1
    [] kind \in {"bookmarkCount", "bookmarkPage"} -> 2
    [] OTHER -> 3
WorkFetchSeq ==
  LET F[i \in 0..Len(fetchLog)] ==
        IF i = 0 THEN <<>>
        ELSE IF fetchLog[i][1] = "work" THEN Append(F[i - 1], fetchLog[i][2])
             ELSE F[i - 1]
  IN F[Len(fetchLog)]

\* C16: the fetches of a run occur in phase order: history listing fetches,
\* then bookmark listing fetches, then detail fetches in the order of the
\* merged collection; no listing fetch follows a detail fetch, and a source
\* that options.source does not select is never fetched.
C16_PhaseOrder ==
  /\ \A i, j \in 1..Len(fetchLog) :
       i < j => PhaseOf(fetchLog[i][1]) <= PhaseOf(fetchLog[j][1])
  /\ Len(WorkFetchSeq) <= Len(merged)
  /\ \A i \in 1..Len(WorkFetchSeq) : WorkFetchSeq[i] = merged[i].workId
  /\ options.source = "history" => \A i \in 1..Len(fetchLog) : PhaseOf(fetchLog[i][1]) # 2
  /\ options.source = "bookmarks" => \A i \in 1..Len(fetchLog) : PhaseOf(fetchLog[i][1]) # 1
  /\ options.source = "both" =>
       \A i \in 1..Len(fetchLog) :
         PhaseOf(fetchLog[i][1]) = 3 =>
           \E h, b \in 1..(i - 1) : PhaseOf(fetchLog[h][1]) = 1 /\ PhaseOf(fetchLog[b][1]) = 2

\* both sources listed, then two different works fetched in merged order
C16_Witness ==
  /\ options.source = "both"
  /\ Len(WorkFetchSeq) = 2
  /\ WorkFetchSeq[1] # WorkFetchSeq[2]
  /\ \E i \in 1..Len(fetchLog) : fetchLog[i] = <<"historyPage", 2>>

PageFetches(kind) == { i \in 1..Len(fetchLog) : fetchLog[i][1] = kind }
PagesFetched(kind) == { fetchLog[i][2] : i \in PageFetches(kind) }
HistoryListed ==
  \/ \E i \in 1..Len(fetchLog) : PhaseOf(fetchLog[i][1]) > 1
  \/ options.source = "history" /\ ListingComplete
BookmarksListed == options.source # "history" /\ ListingComplete
PageLimitHolds(kind, source) ==
  /\ Cardinality(PageFetches(kind)) = Cardinality(PagesFetched(kind))
  /\ options.timeRange = "pages" =>
       /\ Cardinality(PageFetches(kind)) <= options.pageLimit
       /\ \A p \in PagesFetched(kind) :
            p <= Min(advertised[source], options.pageLimit)
       /\ \A i \in PageFetches(kind), j \in WorkFetches : i < j

\* C17: with timeRange pages and pageLimit L >= 1 the run fetches, per
\* selected source, at most L listing pages and none numbered above
\* min(advertised bound, L), all before the first detail fetch; with any other
\* timeRange a source whose listing has finished had every page 1..bound fetched.
C17_PageLimit ==
  /\ PageLimitHolds("historyPage", "history")
  /\ PageLimitHolds("bookmarkPage", "bookmarks")
  /\ (options.timeRange # "pages" /\ HistoryListed) =>
       PagesFetched("historyPage") = 1..advertised.history
  /\ (options.timeRange # "pages" /\ BookmarksListed) =>
       PagesFetched("bookmarkPage") = 1..advertised.bookmarks

\* the limit cut both listings short and enrichment began
C17_Witness ==
  /\ options.timeRange = "pages"
  /\ options.source = "both"
  /\ advertised.history > options.pageLimit
  /\ advertised.bookmarks > options.pageLimit
  /\ ListingComplete
  /\ WorkFetches # {}

\* C18: each merged record's detail page is fetched at most once: the i-th
\* detail fetch is for the i-th merged record whatever the earlier fetches
\* returned, a failed fetch is counted and not issued again, and a run that
\* resolves as success after enrichment made as many detail fetches as there
\* are merged records.
C18_NoRetry ==
  /\ Len(WorkFetchSeq) = Len(outcomes) + (IF pc = "work" THEN 1 ELSE 0)
  /\ Len(WorkFetchSeq) <= Len(merged)
  /\ \A i \in 1..Len(WorkFetchSeq) : WorkFetchSeq[i] = merged[i].workId
  /\ failed = Cardinality(FailedFetches)
  /\ (Resolved /\ result.kind = "success") => Len(WorkFetchSeq) = Len(merged)

\* a success after the first of two detail fetches failed
C18_Witness ==
  /\ Resolved
  /\ result.kind = "success"
  /\ Len(outcomes) = 2
  /\ ~outcomes[1]
  /\ result.failed >= 1

IsOlderThanAYear(dateStr) ==
  /\ dateStr # Null
  /\ ParseDate(dateStr) # NaN
  /\ ParseDate(dateStr) < NowDay - OneYearDays
NotOlderOf(items) ==
  LET F[i \in 0..Len(items)] ==
        IF i = 0 THEN <<>>
        ELSE IF IsOlderThanAYear(items[i].lastVisited) THEN F[i - 1]
             ELSE Append(F[i - 1], items[i])
  IN F[Len(items)]

\* C19: with timeRange year a listing record is dropped only if its
\* lastVisited parses as a date older than one year before now; records with
\* an absent or unparseable lastVisited are kept, and with any other
\* timeRange no record is dropped.
C19_YearFilter ==
  pc = "filtered" =>
    /\ options.timeRange = "year" => NotOlderOf(allItems) = NotOlderOf(hItems)
    /\ options.timeRange # "year" => allItems = hItems
    /\ Len(allItems) <= Len(hItems)

\* the year filter dropped an old record between an undated and an unparseable one
C19_Witness ==
  /\ pc = "filtered"
  /\ options.timeRange = "year"
  /\ Len(hItems) = 3
  /\ hItems[1].lastVisited = Null
  /\ hItems[2].lastVisited = "31 Dec 2021"
  /\ hItems[3].lastVisited = "a while ago"
  /\ Len(allItems) = 2

SumOfPercents(breakdown) ==
  LET S[i \in 0..Len(breakdown)] ==
        IF i = 0 THEN 0 ELSE S[i - 1] + breakdown[i].percent
  IN S[Len(breakdown)]

\* C20: the ratingBreakdown percentages analyze returns sum to 100 within
\* +-1 for every non-empty collection, records with an absent or 'Unknown'
\* rating included.
C20_RatingPercentSum ==
  (pc = "analyzed" /\ Len(scrapedData) > 0) =>
    SumOfPercents(stats.ratingBreakdown) \in 99..101

\* C21: for every non-empty collection the six percentages of
\* lengthDistribution add up to 100 give or take 1.
C21_LengthPercentSum ==
  (pc = "analyzed" /\ Len(scrapedData) > 0) =>
    SumOfPercents(stats.lengthDistribution) \in 99..101

\* the relationship tags of the stored collection, in the order analyze
\* meets them, and how often each occurs
AllShips == FlatMap(scrapedData, "relationships")
ShipOccurrences(ship) == Cardinality({ k \in 1..Len(AllShips) : AllShips[k] = ship })
OnceShips == { AllShips[k] : k \in { j \in 1..Len(AllShips) : ShipOccurrences(AllShips[j]) = 1 } }
FirstMet(ship) == CHOOSE k \in 1..Len(AllShips) :
                    AllShips[k] = ship /\ \A j \in 1..(k - 1) : AllShips[j] # ship

\* C22: a non-null rarestPair is a relationship tag that occurs exactly
\* once in the collection, and rarestPair is null when no ship occurs
\* exactly once.
C22_RarestPairOccursOnce ==
  (pc = "analyzed" /\ Len(scrapedData) > 0) =>
    /\ stats.rarestPair # Null => ShipOccurrences(stats.rarestPair) = 1
    /\ OnceShips = {} => stats.rarestPair = Null

\* C23: rarestPairs holds only ships that occur exactly once, at most 5 of
\* them, in the order in which they were first met; it holds all of them
\* when there are at most 5; and when it is not empty rarestPair is its
\* first entry.
C23_RarestPairs ==
  (pc = "analyzed" /\ Len(scrapedData) > 0) =>
    LET pairs == stats.rarestPairs
    IN /\ \A k \in 1..Len(pairs) : ShipOccurrences(pairs[k]) = 1
       /\ Len(pairs) <= 5
       /\ \A k, l \in 1..Len(pairs) : k < l => FirstMet(pairs[k]) < FirstMet(pairs[l])
       /\ Cardinality(OnceShips) <= 5 => { pairs[k] : k \in 1..Len(pairs) } = OnceShips
       /\ Cardinality(OnceShips) > 5 =>
            /\ Len(pairs) = 5
            /\ \A ship \in OnceShips :
                  (\A k \in 1..Len(pairs) : pairs[k] # ship) =>
                    \A k \in 1..Len(pairs) : FirstMet(pairs[k]) < FirstMet(ship)
       /\ Len(pairs) > 0 => stats.rarestPair = pairs[1]

\* six ships that occur once each, next to none: five are listed
C23_Witness ==
  /\ pc = "analyzed"
  /\ Cardinality(OnceShips) = 6
  /\ Len(stats.rarestPairs) = 5
  /\ stats.rarestPair = stats.rarestPairs[1]

KudosAbsentAsZero(w) == IF Has(w, "kudos") /\ w.kudos # NullNum THEN w.kudos ELSE 0
VisitsAbsentAsOne(w) == IF Has(w, "visitCount") THEN w.visitCount ELSE 1
Qualifying ==
  { i \in 1..Len(scrapedData) :
      KudosAbsentAsZero(scrapedData[i]) < 100 /\ VisitsAbsentAsOne(scrapedData[i]) >= 2 }

\* C25: hiddenGem is null exactly when no record has kudos (absent as 0)
\* below 100 and visitCount (absent as 1) of at least 2; otherwise it is the
\* first record, in input order, among the qualifying records with the
\* highest visitCount.
C25_HiddenGem ==
  (pc \in {"analyzed", "reanalyzed"} /\ Len(scrapedData) > 0) =>
    /\ stats.hiddenGem = <<>> <=> Qualifying = {}
    /\ Qualifying # {} =>
         \E i \in Qualifying :
           /\ stats.hiddenGem = <<scrapedData[i]>>
           /\ \A j \in Qualifying :
                 \/ VisitsAbsentAsOne(scrapedData[j]) < VisitsAbsentAsOne(scrapedData[i])
                 \/ /\ VisitsAbsentAsOne(scrapedData[j]) = VisitsAbsentAsOne(scrapedData[i])
                    /\ (i <= j \/ scrapedData[j] = scrapedData[i])

\* two qualifying records tie on the visit count, after a record that is
\* visited more often but has too many kudos
C25_Witness ==
  /\ pc = "analyzed"
  /\ Len(scrapedData) = 3
  /\ 1 \notin Qualifying /\ VisitsAbsentAsOne(scrapedData[1]) = 3
  /\ Qualifying = {2, 3}
  /\ VisitsAbsentAsOne(scrapedData[2]) = 2 /\ VisitsAbsentAsOne(scrapedData[3]) = 2
  /\ scrapedData[2] # scrapedData[3]
  /\ stats.hiddenGem = <<scrapedData[2]>>

\* what a ranking of at most n entries over the values of items is, the
\* values in uncounted left aside
OccurrencesIn(items, value) == Cardinality({ k \in 1..Len(items) : items[k] = value })
FirstIn(items, value) ==
  LET at == { k \in 1..Len(items) : items[k] = value }
  IN CHOOSE k \in at : \A j \in at : k <= j
IsRanking(top, items, n, uncounted) ==
  LET values == { items[k] : k \in 1..Len(items) } \ uncounted
      listed == { top[k][1] : k \in 1..Len(top) }
  IN /\ Len(top) <= n
     /\ \A k \in 1..Len(top) :
           top[k][1] \in values /\ top[k][2] = OccurrencesIn(items, top[k][1])
     /\ \A k \in 1..(Len(top) - 1) :
           \/ top[k][2] > top[k + 1][2]
           \/ /\ top[k][2] = top[k + 1][2]
              /\ FirstIn(items, top[k][1]) < FirstIn(items, top[k + 1][1])
     /\ \A v \in values \ listed :
           Len(top) = n /\ OccurrencesIn(items, v) <= top[n][2]
IsTopOf(entry, top) == entry = (IF Len(top) > 0 THEN top[1] ELSE <<"Unknown", 0>>)

AllRankings(uncounted, uncountedTags) ==
  /\ IsRanking(stats.topFandoms, FlatMap(scrapedData, "fandoms"), 10, uncounted)
  /\ IsRanking(stats.topShips, FlatMap(scrapedData, "relationships"), 10, uncounted)
  /\ IsRanking(stats.topCharacters, FlatMap(scrapedData, "characters"), 10, uncounted)
  /\ IsRanking(stats.topAuthors, FlatMap(scrapedData, "authors"), 10, uncounted)
  /\ IsRanking(stats.warningBreakdown, FlatMap(scrapedData, "warnings"), 10, uncounted)
  /\ IsRanking(stats.topTags, FlatMap(scrapedData, "freeformTags"), 30, uncountedTags)
  /\ IsTopOf(stats.topFandom, stats.topFandoms)
  /\ IsTopOf(stats.topShip, stats.topShips)
  /\ IsTopOf(stats.topCharacter, stats.topCharacters)
  /\ IsTopOf(stats.topAuthor, stats.topAuthors)
  /\ IsTopOf(stats.topTag, stats.topTags)

\* C26 as stated: every ranking (fandoms, ships, characters, authors,
\* warnings: 10 entries; freeform tags: 30) lists values with their number
\* of occurrences over all records, counts never increasing, no left-out
\* value more frequent than a listed one, ties in the order of first
\* occurrence, and the top entry is the first entry or ['Unknown', 0].
C26_TopRankings ==
  (pc = "analyzed" /\ Len(scrapedData) > 0) => AllRankings({}, {})

\* C26 amended: the same over the values that are counted: every value but
\* the empty string and, among the freeform tags, but the excluded tags.
C26_TopRankingsOfCounted ==
  (pc = "analyzed" /\ Len(scrapedData) > 0) =>
    AllRankings({""}, {""} \cup tagsToExclude)

\* more fandoms than the ranking holds, some met twice, and more freeform
\* tags than their ranking holds
C26_Witness ==
  /\ pc = "analyzed"
  /\ Len(scrapedData) = 2
  /\ Len(stats.topFandoms) = 10
  /\ stats.topFandoms[1][2] = 2
  /\ stats.topFandoms[10][2] = 1
  /\ stats.topFandoms[1][1] # scrapedData[1].fandoms[1]
  /\ Len(stats.topTags) = 30
  /\ Cardinality({ FlatMap(scrapedData, "freeformTags")[k] :
                     k \in 1..Len(FlatMap(scrapedData, "freeformTags")) }) > 30

\* C27: for an empty (or absent) collection analyze returns exactly
\* {isEmpty: true, totalWorks: 0}; for every other collection isEmpty is
\* false and totalWorks is the number of records.
C27_EmptySentinel ==
  pc = "analyzed" =>
    /\ Len(scrapedData) = 0 => stats = [isEmpty |-> TRUE, totalWorks |-> 0]
    /\ Len(scrapedData) > 0 =>
         stats.isEmpty = FALSE /\ stats.totalWorks = Len(scrapedData)

\* the empty collection has been analyzed
C27_Witness ==
  /\ pc = "analyzed"
  /\ scrapedData = <<>>
  /\ DOMAIN stats = {"isEmpty", "totalWorks"}
  /\ stats.isEmpty

\* a record with every optional field that is absent or null set to the
\* value the claim names for it: 0, the empty string or list, 'Unknown'
NumberOr(w, f, default) == IF Has(w, f) /\ w[f] # NullNum THEN w[f] ELSE default
TextOr(w, f, default) == IF Has(w, f) /\ w[f] # Null THEN w[f] ELSE default
ListOr(w, f) == IF Has(w, f) THEN w[f] ELSE <<>>
FilledIn(w) ==
  [workId |-> w.workId,
   wordCount |-> NumberOr(w, "wordCount", 0),
   kudos |-> NumberOr(w, "kudos", 0),
   visitCount |-> NumberOr(w, "visitCount", 0),
   rating |-> TextOr(w, "rating", "Unknown"),
   chapters |-> TextOr(w, "chapters", ""),
   lastVisited |-> TextOr(w, "lastVisited", ""),
   fandoms |-> ListOr(w, "fandoms"),
   relationships |-> ListOr(w, "relationships"),
   characters |-> ListOr(w, "characters"),
   freeformTags |-> ListOr(w, "freeformTags"),
   authors |-> ListOr(w, "authors"),
   warnings |-> ListOr(w, "warnings")]
   @@ (IF Has(w, "complete") THEN [complete |-> w.complete] ELSE <<>>)
AllFilledIn(works) == [ i \in 1..Len(works) |-> FilledIn(works[i]) ]

\* statistics with the records they hold filled in the same way
PickFilledIn(pick) == [ k \in 1..Len(pick) |-> FilledIn(pick[k]) ]
StatsFilledIn(st) ==
  [st EXCEPT !.longestWork = FilledIn(@),
             !.mostReRead = FilledIn(@),
             !.mostKudosedWork = FilledIn(@),
             !.hiddenGem = PickFilledIn(@),
             !.bookmarkStats.secretFavorite = PickFilledIn(@)]

\* the records with a lastVisited that parses as a date
DatedOnly(works) ==
  LET F[i \in 0..Len(works)] ==
        IF i = 0 THEN <<>>
        ELSE IF Has(works[i], "lastVisited") /\ works[i].lastVisited # Null
                /\ ParseDate(works[i].lastVisited) # NaN
             THEN Append(F[i - 1], works[i])
             ELSE F[i - 1]
  IN F[Len(works)]
DateKeyed == {"monthlyActivity", "busiestMonth", "totalReadingDays", "longestStreak"}
NoDateKeyed ==
  [monthlyActivity |-> <<>>, busiestMonth |-> <<>>, totalReadingDays |-> 0,
   longestStreak |-> 0]

\* C28: analyze does not throw on records whose optional fields are absent
\* or null; the statistics are those of the same records with 0, the empty
\* string or list, or 'Unknown' in place of what is missing (a missing
\* complete flag counts as unknown); and the date-keyed aggregates are those
\* of the records whose lastVisited parses as a date.
C28_MissingFields ==
  (pc = "analyzed" /\ Len(scrapedData) > 0) =>
    /\ stats # Thrown
    /\ StatsFilledIn(stats) = StatsFilledIn(analyze(AllFilledIn(scrapedData)))
    /\ stats.completionStats.unknown =
         Cardinality({ i \in 1..Len(scrapedData) : ~Has(scrapedData[i], "complete") })
    /\ \A f \in DateKeyed :
         stats[f] = IF Len(DatedOnly(scrapedData)) = 0 THEN NoDateKeyed[f]
                    ELSE analyze(DatedOnly(scrapedData))[f]

\* a record with nothing but its id and a date that is no date, between two
\* records read on consecutive days
C28_Witness ==
  /\ pc = "analyzed"
  /\ Len(scrapedData) = 3
  /\ DOMAIN scrapedData[2] = {"workId", "lastVisited"}
  /\ scrapedData[2].lastVisited = "a while ago"
  /\ stats.totalWorks = 3
  /\ stats.totalReadingDays = 2
  /\ stats.longestStreak = 2

\* a click on Apply or Reset has just been handled
Filtered == pc \in {"regenerated", "noResults"}

\* C29: with the controls as resetFilters sets them (word counts 0 to
\* 200000, every rating checked) the filtered collection has the work ids
\* of the stored collection.
C29_DefaultKeepsAll ==
  (Filtered /\ elements = ResetElements) =>
    WorkIdsOf(filteredWorks) = WorkIdsOf(scrapedData)

\* a is b with some elements left out
IsSubsequence(a, b) ==
  LET M[i \in 0..Len(a)] ==
        IF i = 0 THEN 0
        ELSE LET later == { k \in (M[i - 1] + 1)..Len(b) : b[k] = a[i] }
             IN IF later = {} THEN Len(b) + 1
                ELSE CHOOSE k \in later : \A j \in later : k <= j
  IN M[Len(a)] <= Len(b)

\* C30: filtering the filtered collection again with the same settings
\* changes nothing, and the filtered collection is the stored one with some
\* records left out, the others in their order.
C30_FilterIdempotent ==
  Filtered =>
    /\ applyFilters(filteredWorks, getFilterSettings(elements)) = filteredWorks
    /\ IsSubsequence(filteredWorks, scrapedData)

\* settings other than the default ones have kept the second of two
\* different records and dropped the first
C30_Witness ==
  /\ pc = "regenerated"
  /\ elements # ResetElements
  /\ Len(scrapedData) = 2
  /\ scrapedData[1] # scrapedData[2]
  /\ filteredWorks = <<scrapedData[2]>>

\* the word count and the rating the claim speaks of: an absent word count
\* is 0, an absent rating is 'Unknown'
WordCountOf(w) == IF w.wordCount = NullNum THEN 0 ELSE w.wordCount
RatingOf(w) == IF w.rating = Null THEN "Unknown" ELSE w.rating

\* C31: applyFilters keeps a record if and only if its word count (absent:
\* 0) lies between wordCountMin and wordCountMax, both included, and its
\* rating (absent: 'Unknown') is one of the allowed ratings.
C31_KeepsIffInRange ==
  Filtered =>
    filteredWorks =
      SelectSeq(scrapedData,
                LAMBDA w : /\ elements.wordCountMin <= WordCountOf(w)
                           /\ WordCountOf(w) <= elements.wordCountMax
                           /\ RatingOf(w) \in elements.checked)

\* a record whose word count is the upper limit is kept, and one without a
\* rating is dropped because 'Unknown' is unchecked
C31_Witness ==
  /\ pc = "regenerated"
  /\ Len(scrapedData) = 2
  /\ elements.wordCountMax = 1000
  /\ "Unknown" \notin elements.checked
  /\ scrapedData[1].wordCount = 1000
  /\ scrapedData[2].rating = Null
  /\ filteredWorks = <<scrapedData[1]>>

ResolvableIds(items) ==
  LET resolvable == SelectSeq(items, LAMBDA item :
                        /\ item.titleLink # <<>>
                        /\ item.titleLink[1].href # Null
                        /\ WorkIdMatch(item.titleLink[1].href) # NullNum)
  IN [ k \in 1..Len(resolvable) |-> WorkIdMatch(resolvable[k].titleLink[1].href) ] \o <<>>
IdsOf(items) == [ k \in 1..Len(items) |-> items[k].workId ] \o <<>>

\* C34: a listing row from which no work id can be resolved (no title link,
\* a title link without href, an href that is no /works/<digits> URL) is
\* dropped silently: parsing the page does not throw, the run does not fail,
\* and the other rows of the page are returned.
C34_UnresolvableRowsDropped ==
  pc \in {"parsed", "done"} =>
    /\ pc = "parsed"
    /\ result = NoResult
    /\ IdsOf(IF doc.source = "history" THEN hItems ELSE bItems) = ResolvableIds(doc.items)

\* the calendar days that the parseable lastVisited texts of a collection name
VisitDays(works) ==
  { ParseDate(works[i].lastVisited) :
      i \in { j \in 1..Len(works) :
                works[j].lastVisited # Null /\ ParseDate(works[j].lastVisited) # NaN } }

\* the length of the longest run of days next to each other in a set of days
LongestRun(days) ==
  IF days = {} THEN 0
  ELSE CHOOSE n \in 1..Cardinality(days) :
         /\ \E d \in days : \A k \in 0..(n - 1) : d + k \in days
         /\ \A d \in days : \E k \in 0..n : d + k \notin days

\* C35: longestStreak is the length of the longest run of consecutive
\* calendar days among the distinct parseable lastVisited days; it is 0 when
\* no record has a parseable date, otherwise between 1 and totalReadingDays,
\* and totalReadingDays is the number of distinct days.
C35_StreakOfCalendarDays ==
  (pc = "analyzed" /\ Len(scrapedData) > 0) =>
    /\ stats.totalReadingDays = Cardinality(VisitDays(scrapedData))
    /\ stats.longestStreak = LongestRun(VisitDays(scrapedData))
    /\ (VisitDays(scrapedData) = {}) => stats.longestStreak = 0
    /\ (VisitDays(scrapedData) # {}) =>
         stats.longestStreak >= 1 /\ stats.longestStreak <= stats.totalReadingDays

\* C36: whatever the order of the clicks on Start and Cancel, at most one
\* call of scrapeAll is active at a time; a call that the user cancelled
\* issues no further fetch; and while a cancelled call is still active the
\* cancel request is not cleared by the resetCancel of a new call.
C36_OneActiveRun ==
  /\ Cardinality(ActiveRuns) <= 1
  /\ \A r \in 1..Len(runs) : runs[r].cancelled => runs[r].fetchedSince = 0
  /\ \A r \in ActiveRuns : runs[r].cancelled => cancelRequested

\* C37: scrapeAll resolves as {success: false, cancelled: true} only if
\* requestCancel was called during the run, and a failed page-bound or
\* listing-page fetch is reported as {success: false, error} whatever the
\* text of the error the fetch returned.
C37_CancelledOnlyOnRequest ==
  Resolved =>
    /\ result.kind = "cancelled" => cancelRequested
    /\ ListingFailed => result.kind = "error"

\* the record as the listing gave it, and as enrichment left it
Listed == hItems[1]
Enriched == allItems[1]
ListedOnly == {"title", "authors", "visitCount", "lastVisited", "isBookmark"}

\* C38: a detail fetch that succeeds removes no information from the
\* record: a word count or a non-empty tag list that the listing row gave is
\* still there after enrichment, and title, authors, visitCount, lastVisited
\* and the bookmark flag are unchanged.
C38_EnrichmentKeepsListed ==
  (pc = "enriched" /\ outcomes = <<TRUE>>) =>
    /\ Listed.wordCount # NullNum => Enriched.wordCount # NullNum
    /\ \A k \in TagKinds : Listed[k] # <<>> => Enriched[k] # <<>>
    /\ \A f \in ListedOnly :
         /\ Has(Listed, f) <=> Has(Enriched, f)
         /\ Has(Listed, f) => Enriched[f] = Listed[f]

====
